---- MODULE Spec2Model ----
(***************************************************************************)
(* PowerBot: the platform-linking registry (backend/managers/link_manager) *)
(* and the economy ledger (backend/managers/economy_manager) over the      *)
(* shared SQLite store, with the YouTube chat gamble command, and the       *)
(* autosave snapshots of that store with their manifest and retention      *)
(* (backend/services/backup/autosave_packager).                            *)
(*                                                                         *)
(* The store is one record, db, with one field per table.  Every function  *)
(* of the source that takes a connection is an operator from a store value *)
(* to a store value; a transaction is an action that either installs the   *)
(* value its statements produce (commit) or leaves db alone (rollback).    *)
(* The reads an operation makes before BEGIN IMMEDIATE are a step of their *)
(* own (Start...), the transaction is a second step (Commit...), so that   *)
(* other workers' transactions can fall between the two.                   *)
(*                                                                         *)
(* Amounts are integers counting thousandths of a point, so that the       *)
(* 2-decimal rounding of the source does something.  Binary floating       *)
(* point error is not modelled.  Time is in seconds.                       *)
(*                                                                         *)
(* The backup directory is the record disk: the manifest, the snapshot     *)
(* files and the scheduler's last_run_at.  Its clock, wall, counts half     *)
(* seconds, because created_at is finer than the one-second resolution of  *)
(* a snapshot's file name.  taken is the history of the created_at of      *)
(* every finished autosave.                                                *)
(*                                                                         *)
(* mirror is the rest of the backup service: the autosave configuration,   *)
(* the content of the local database and of every snapshot file (a version *)
(* number), the content of the MySQL mirror, and whether the backup_core    *)
(* process is running.  stream is the StreamManager's state with the       *)
(* YouTube listener next to it.  sup is the console process: the handle,   *)
(* the persisted toggle and the autorun flag of every worker.  What the    *)
(* remote services answer and when a process dies are inputs of the        *)
(* actions.                                                                *)
(*                                                                         *)
(* hub is the WebSocket broadcast hub: the set of connections, every       *)
(* handler's position and what each peer has received; a broadcast takes   *)
(* one step per awaited send.  pq is the queue file of progress events     *)
(* with the producers and the consumer between their read and their write. *)
(* chan is the economy channel of one guild: the milestone state file and  *)
(* the notifications between their load and their save.                    *)
(***************************************************************************)
EXTENDS Integers, Sequences, FiniteSets, TLC

VARIABLES db, clock, inflight, last, nops, disk, wall, taken, mirror, sup, stream,
          hub, pq, chan

vars == <<db, clock, inflight, last, nops, disk, wall, taken, mirror, sup, stream,
         hub, pq, chan>>

\* the backup directory, its clock and its history
bvars == <<disk, wall, taken>>

\* the websocket hub, the progress-event queue file and the economy channel
nvars == <<hub, pq, chan>>

\* the backup service around it, the console's workers and the stream watcher
ovars == <<mirror, sup, stream, nvars>>

-----------------------------------------------------------------------------
(* Bounds of the model *)

MaxUsers == 4
MaxLedger == 6
MaxInflight == 2
MaxOps == 3
MaxClock == 70
MaxLinkClock == 601

-----------------------------------------------------------------------------
(* Domains of the inputs *)

Pt(n) == n * 1000

SUPPORTED_PLATFORMS == {"discord", "youtube"}
DiscordIds == {"D1", "D2"}
YoutubeIds == {"Y1", "Y2"}
UserIds == 1..MaxUsers
NoUser == 0
NoSource == ""
SourceIds == {NoSource, "m1"}
Codes == {"AAAA1111", "BBBB2222"}

TOKEN_TTL_MINUTES == 10
TokenTtlSeconds == TOKEN_TTL_MINUTES * 60

-----------------------------------------------------------------------------
(* Generic helpers on table-valued functions *)

Min(a, b) == IF a < b THEN a ELSE b
Max(a, b) == IF a > b THEN a ELSE b

Upsert(f, k, v) == [x \in (DOMAIN f) \cup {k} |-> IF x = k THEN v ELSE f[x]]
DeleteKeys(f, K) == [x \in (DOMAIN f) \ K |-> f[x]]

\* AUTOINCREMENT of users.user_id: rows are never deleted
NextUserId(d) == Cardinality(d.users) + 1

-----------------------------------------------------------------------------
(* economy_manager.py *)

\* round(float(value), 2) on thousandths; inputs never sit on a tie
RoundAmount(v) ==
    LET r == v % 10
    IN  IF r < 5 THEN v - r ELSE v - r + 10

Bal(d, u, p) == IF <<u, p>> \in DOMAIN d.pw THEN d.pw[<<u, p>>] ELSE 0

\* SELECT COALESCE(SUM(balance), 0) FROM platform_wallets WHERE user_id = ?
SumPlatformWallets(d, u) == Bal(d, u, "discord") + Bal(d, u, "youtube")

WalletBalance(d, u) == IF u \in DOMAIN d.wallets THEN d.wallets[u] ELSE 0

_ensure_platform_wallet_row(d, u, p) ==
    IF <<u, p>> \in DOMAIN d.pw THEN d ELSE [d EXCEPT !.pw = Upsert(@, <<u, p>>, 0)]

_sync_wallet_total(d, u) ==
    [d EXCEPT !.wallets = Upsert(@, u, RoundAmount(SumPlatformWallets(d, u)))]

_credit_platform_balance(d, u, p, amount) ==
    LET credit == RoundAmount(amount)
        d1 == _ensure_platform_wallet_row(d, u, p)
        d2 == [d1 EXCEPT !.pw[<<u, p>>] = @ + credit]
    IN  _sync_wallet_total(d2, u)

_get_platform_balances(d, u) == [p \in SUPPORTED_PLATFORMS |-> RoundAmount(Bal(d, u, p))]

\* variant: the preferred platform is ignored
OrderedPlatforms_DiscordFirst(preferred) == <<"discord", "youtube">>

\* [preferred_platform, "discord", "youtube"] without repetitions
OrderedPlatforms(preferred) ==
    IF preferred = "youtube" THEN <<"youtube", "discord">> ELSE <<"discord", "youtube">>

RECURSIVE DeductLoop(_, _, _, _, _)
DeductLoop(d, u, balances, ordered, pending) ==
    IF ordered = <<>> \/ pending <= 0 THEN d
    ELSE LET p == Head(ordered)
             current == balances[p]
             take == RoundAmount(Min(current, pending))
         IN  IF current <= 0 \/ take <= 0
             THEN DeductLoop(d, u, balances, Tail(ordered), pending)
             ELSE DeductLoop([d EXCEPT !.pw[<<u, p>>] = @ - take], u, balances,
                             Tail(ordered), RoundAmount(pending - take))

\* variant: what is available is not compared with the amount
_deduct_from_combined_balance_NoCheck(d, u, amount, preferred) ==
    LET pending == RoundAmount(amount)
        balances == _get_platform_balances(d, u)
    IN  IF pending <= 0 THEN [ok |-> TRUE, d |-> d]
        ELSE [ok |-> TRUE,
              d |-> _sync_wallet_total(
                        DeductLoop(d, u, balances, OrderedPlatforms(preferred), pending), u)]

\* returns [ok, d]
_deduct_from_combined_balance(d, u, amount, preferred) ==
    LET pending == RoundAmount(amount)
        balances == _get_platform_balances(d, u)
        available == RoundAmount(balances["discord"] + balances["youtube"])
    IN  IF pending <= 0 THEN [ok |-> TRUE, d |-> d]
        ELSE IF available < pending THEN [ok |-> FALSE, d |-> d]
        ELSE [ok |-> TRUE,
              d |-> _sync_wallet_total(
                        DeductLoop(d, u, balances, OrderedPlatforms(preferred), pending), u)]

LedgerRow(u, amount, reason, platform, guild, source, peer, at) ==
    [user |-> u, amount |-> amount, reason |-> reason, platform |-> platform,
     guild |-> guild, source |-> source, peer |-> peer, at |-> at]

\* UNIQUE(user_id, source_id) of wallet_ledger; NULL source ids never collide
LedgerConflict(d, u, source) ==
    /\ source # NoSource
    /\ \E i \in 1..Len(d.ledger) : d.ledger[i].user = u /\ d.ledger[i].source = source

-----------------------------------------------------------------------------
(* Profile lookups *)

\* SELECT user_id FROM discord_profile WHERE discord_id = ? and its youtube_profile
\* twin: the user_id of the profile row, NoUser when there is none
ProfileOwner(d, platform, ext) == IF platform = "discord" THEN d.dprof[ext] ELSE d.yprof[ext]

\* backend/managers/user_manager.py and user_lookup_manager.py: the user_id of the
\* profile that the lookup returns
get_discord_profile_by_discord_id(d, discord) == ProfileOwner(d, "discord", discord)

get_youtube_profile_by_channel_id(d, yt) == ProfileOwner(d, "youtube", yt)

find_user_by_youtube_channel_id(d, yt) == ProfileOwner(d, "youtube", yt)

DiscordProfilesOf(d, u) == {x \in DiscordIds : d.dprof[x] = u}
YoutubeProfilesOf(d, u) == {x \in YoutubeIds : d.yprof[x] = u}

-----------------------------------------------------------------------------
(* link_manager.py: id resolution *)

\* SELECT primary_user_id FROM user_id_links WHERE inactive_user_id = ? AND is_active = 1
_resolve_active_user_id_in_conn(d, u) ==
    IF u \in DOMAIN d.links /\ d.links[u].active THEN d.links[u].primary ELSE NoUser

resolve_active_user_id(d, u) ==
    LET row == _resolve_active_user_id_in_conn(d, u)
    IN  IF row = NoUser THEN u ELSE row

-----------------------------------------------------------------------------
(* economy_manager.py: the transactions.  Each returns [ok, err, d, total]; *)
(* d is the store to commit, the unchanged store after a rollback.          *)

Rollback(d, err) == [ok |-> FALSE, err |-> err, d |-> d, total |-> 0]
Commit(d, total) == [ok |-> TRUE, err |-> "", d |-> d, total |-> total]

HasEarningEvent(d, platform, source) ==
    \E e \in d.events : e.platform = platform /\ e.source = source

\* variant: an award exactly interval_seconds after the last one is still refused
CooldownBlocks_Inclusive(d, u, scope, interval, now) ==
    /\ <<u, scope>> \in DOMAIN d.cooldown
    /\ now - d.cooldown[<<u, scope>>] <= interval

CooldownBlocks(d, u, scope, interval, now) ==
    /\ <<u, scope>> \in DOMAIN d.cooldown
    /\ now - d.cooldown[<<u, scope>>] < interval

\* variant: the duplicate lookup is keyed by the user as well
AwardTransaction_DuplicatePerUser(d, platform, u, scope, amount, interval, source, now) ==
    IF source # NoSource
       /\ \E e \in d.events : e.platform = platform /\ e.source = source /\ e.user = u
    THEN Rollback(d, "duplicate")
    ELSE IF CooldownBlocks(d, u, scope, interval, now)
    THEN Rollback(d, "cooldown")
    ELSE IF LedgerConflict(d, u, source)
    THEN Rollback(d, "storage")
    ELSE LET d1 == _credit_platform_balance(d, u, platform, amount)
             d2 == [d1 EXCEPT !.ledger = Append(@,
                        LedgerRow(u, amount, "message_earning", platform, scope, source, NoUser, now))]
             d3 == IF source # NoSource
                   THEN [d2 EXCEPT !.events = @ \cup
                            {[platform |-> platform, source |-> source, user |-> u]}]
                   ELSE d2
             d4 == [d3 EXCEPT !.cooldown = Upsert(@, <<u, scope>>, now)]
         IN  Commit(d4, WalletBalance(d1, u))

\* the body of award_message_points ("discord") and of its twin
\* award_youtube_message_points ("youtube") after BEGIN IMMEDIATE
AwardTransaction(d, platform, u, scope, amount, interval, source, now) ==
    IF source # NoSource /\ HasEarningEvent(d, platform, source)
    THEN Rollback(d, "duplicate")
    ELSE IF CooldownBlocks(d, u, scope, interval, now)
    THEN Rollback(d, "cooldown")
    ELSE IF LedgerConflict(d, u, source)
    THEN Rollback(d, "storage")
    ELSE LET d1 == _credit_platform_balance(d, u, platform, amount)
             d2 == [d1 EXCEPT !.ledger = Append(@,
                        LedgerRow(u, amount, "message_earning", platform, scope, source, NoUser, now))]
             d3 == IF source # NoSource
                   THEN [d2 EXCEPT !.events = @ \cup
                            {[platform |-> platform, source |-> source, user |-> u]}]
                   ELSE d2
             d4 == [d3 EXCEPT !.cooldown = Upsert(@, <<u, scope>>, now)]
         IN  Commit(d4, WalletBalance(d1, u))

award_message_points(d, u, scope, amount, interval, source, now) ==
    AwardTransaction(d, "discord", u, scope, amount, interval, source, now)

award_youtube_message_points(d, u, scope, amount, interval, source, now) ==
    AwardTransaction(d, "youtube", u, scope, amount, interval, source, now)

\* get_user_balance_by_id: creates the two platform rows and re-syncs the total
get_user_balance_by_id(d, u) ==
    LET r == resolve_active_user_id(d, u)
    IN  IF r \notin d.users THEN d
        ELSE _sync_wallet_total(
                 _ensure_platform_wallet_row(
                     _ensure_platform_wallet_row(d, r, "discord"), r, "youtube"), r)

\* apply_balance_delta after BEGIN IMMEDIATE; delta is rounded and non-zero
apply_balance_delta(d, u, delta, reason, platform, source, now) ==
    IF u \notin d.users THEN Rollback(d, "unknown_user")
    ELSE LET d1 == _sync_wallet_total(
                       _ensure_platform_wallet_row(
                           _ensure_platform_wallet_row(d, u, "discord"), u, "youtube"), u)
             ded == _deduct_from_combined_balance(d1, u, 0 - delta, platform)
             d2 == IF delta > 0 THEN _credit_platform_balance(d1, u, platform, delta)
                   ELSE _sync_wallet_total(ded.d, u)
         IN  IF delta < 0 /\ ~ded.ok THEN Rollback(d, "insufficient")
             ELSE IF LedgerConflict(d2, u, source) THEN Rollback(d, "storage")
             ELSE Commit([d2 EXCEPT !.ledger = Append(@,
                             LedgerRow(u, delta, reason, platform, "", source, NoUser, now))],
                         WalletBalance(d2, u))

EnsureBothRows(d, u) ==
    _sync_wallet_total(
        _ensure_platform_wallet_row(_ensure_platform_wallet_row(d, u, "discord"), u, "youtube"), u)

\* variant: the insufficient-funds return commits the wallet rows made before it
transfer_points_NoRollback(d, from, to, amount, platform, now) ==
    IF from \notin d.users THEN Rollback(d, "unknown_sender")
    ELSE IF to \notin d.users THEN Rollback(d, "unknown_recipient")
    ELSE LET d1 == EnsureBothRows(EnsureBothRows(d, from), to)
             ded == _deduct_from_combined_balance(d1, from, amount, platform)
             d2 == _credit_platform_balance(ded.d, to, platform, amount)
             d3 == [d2 EXCEPT !.ledger = @ \o
                       << LedgerRow(from, 0 - amount, "transfer_to_user", platform, "", NoSource, to, now),
                          LedgerRow(to, amount, "transfer_from_user", platform, "", NoSource, from, now) >>]
             d4 == _sync_wallet_total(_sync_wallet_total(d3, from), to)
         IN  IF WalletBalance(d1, from) < amount THEN Rollback(d1, "insufficient")
             ELSE IF ~ded.ok THEN Rollback(d, "deduct_failed")
             ELSE Commit(d4, WalletBalance(d4, from))

\* variant: the recipient is not credited
transfer_points_NoCredit(d, from, to, amount, platform, now) ==
    IF from \notin d.users THEN Rollback(d, "unknown_sender")
    ELSE IF to \notin d.users THEN Rollback(d, "unknown_recipient")
    ELSE LET d1 == EnsureBothRows(EnsureBothRows(d, from), to)
             ded == _deduct_from_combined_balance(d1, from, amount, platform)
             d3 == [ded.d EXCEPT !.ledger = @ \o
                       << LedgerRow(from, 0 - amount, "transfer_to_user", platform, "", NoSource, to, now),
                          LedgerRow(to, amount, "transfer_from_user", platform, "", NoSource, from, now) >>]
             d4 == _sync_wallet_total(_sync_wallet_total(d3, from), to)
         IN  IF WalletBalance(d1, from) < amount THEN Rollback(d, "insufficient")
             ELSE IF ~ded.ok THEN Rollback(d, "deduct_failed")
             ELSE Commit(d4, WalletBalance(d4, from))

\* transfer_points after BEGIN IMMEDIATE; ids are resolved, amount is rounded and positive
transfer_points(d, from, to, amount, platform, now) ==
    IF from \notin d.users THEN Rollback(d, "unknown_sender")
    ELSE IF to \notin d.users THEN Rollback(d, "unknown_recipient")
    ELSE LET d1 == EnsureBothRows(EnsureBothRows(d, from), to)
             ded == _deduct_from_combined_balance(d1, from, amount, platform)
             d2 == _credit_platform_balance(ded.d, to, platform, amount)
             d3 == [d2 EXCEPT !.ledger = @ \o
                       << LedgerRow(from, 0 - amount, "transfer_to_user", platform, "", NoSource, to, now),
                          LedgerRow(to, amount, "transfer_from_user", platform, "", NoSource, from, now) >>]
             d4 == _sync_wallet_total(_sync_wallet_total(d3, from), to)
         IN  IF WalletBalance(d1, from) < amount THEN Rollback(d, "insufficient")
             ELSE IF ~ded.ok THEN Rollback(d, "deduct_failed")
             ELSE Commit(d4, WalletBalance(d4, from))

-----------------------------------------------------------------------------
(* youtube_api/chat_commands/games/gamble.py *)

\* SELECT balance FROM wallets WHERE user_id = ?
_get_current_balance(d, u) == WalletBalance(d, u)

\* gamble_master.validate_gamble: a positive bet that the balance covers
validate_gamble(current_balance, bet) == bet > 0 /\ bet <= current_balance

\* the total wallet row is updated directly, the platform wallets are not touched
_apply_balance_delta(d, u, delta, source, now) ==
    IF LedgerConflict(d, u, source) THEN Rollback(d, "storage")
    ELSE LET d1 == IF u \in DOMAIN d.wallets THEN d ELSE [d EXCEPT !.wallets = Upsert(@, u, 0)]
             d2 == [d1 EXCEPT !.wallets[u] = @ + delta]
             d3 == [d2 EXCEPT !.ledger = Append(@,
                        LedgerRow(u, delta, "gamble", "youtube", "", source, NoUser, now))]
         IN  Commit(d3, d3.wallets[u])

-----------------------------------------------------------------------------
(* link_manager.py: merge and split *)

AuditRow(u, provider, pid, active) ==
    [user |-> u, provider |-> provider, pid |-> pid, active |-> active]

_register_linked_account(d, u, provider, pid) ==
    LET same(r) == r.provider = provider /\ r.pid = pid
        kept == {r \in d.linked : ~(same(r) /\ ~r.active)}
        off == {IF same(r) /\ r.active THEN [r EXCEPT !.active = FALSE] ELSE r : r \in kept}
    IN  [d EXCEPT !.linked = off \cup {AuditRow(u, provider, pid, TRUE)}]

_deactivate_linked_accounts(d, u) ==
    LET shadowed(r) == /\ ~r.active
                       /\ \E a \in d.linked : /\ a.user = u /\ a.active
                                              /\ a.provider = r.provider /\ a.pid = r.pid
        kept == {r \in d.linked : ~shadowed(r)}
    IN  [d EXCEPT !.linked =
            {IF r.user = u /\ r.active THEN [r EXCEPT !.active = FALSE] ELSE r : r \in kept}]

\* link_manager's own total sync: the sum is stored as it is
_sync_total_wallet(d, u) == [d EXCEPT !.wallets = Upsert(@, u, SumPlatformWallets(d, u))]

InvQty(d, u, item) == IF <<u, item>> \in DOMAIN d.inv THEN d.inv[<<u, item>>] ELSE 0

_merge_inventory(d, from, to) ==
    LET moved == {k \in DOMAIN d.inv : k[1] = from}
        added == [k \in (DOMAIN d.inv) \cup {<<to, m[2]>> : m \in moved} |->
                    IF k[1] = to THEN InvQty(d, to, k[2]) + InvQty(d, from, k[2])
                    ELSE d.inv[k]]
    IN  [d EXCEPT !.inv = DeleteKeys(added, moved)]

\* variant: the moved rows replace the rows of the destination
_merge_platform_wallets_Replace(d, from, to) ==
    LET moved == {k \in DOMAIN d.pw : k[1] = from}
        added == [k \in (DOMAIN d.pw) \cup {<<to, m[2]>> : m \in moved} |->
                    IF k[1] = to /\ <<from, k[2]>> \in moved THEN Bal(d, from, k[2])
                    ELSE d.pw[k]]
    IN  [d EXCEPT !.pw = DeleteKeys(added, moved)]

_merge_platform_wallets(d, from, to) ==
    LET moved == {k \in DOMAIN d.pw : k[1] = from}
        added == [k \in (DOMAIN d.pw) \cup {<<to, m[2]>> : m \in moved} |->
                    IF k[1] = to THEN Bal(d, to, k[2]) + Bal(d, from, k[2])
                    ELSE d.pw[k]]
    IN  [d EXCEPT !.pw = DeleteKeys(added, moved)]

\* UPDATE wallet_ledger SET user_id = to WHERE user_id = from breaks
\* UNIQUE(user_id, source_id) when both ids hold a row with the same source id
MergeLedgerConflict(d, from, to) ==
    \E i, j \in 1..Len(d.ledger) :
        /\ d.ledger[i].user = from /\ d.ledger[j].user = to
        /\ d.ledger[i].source # NoSource
        /\ d.ledger[i].source = d.ledger[j].source

MergeCooldown(d, from, to) ==
    LET moved == {k \in DOMAIN d.cooldown : k[1] = from}
        added == [k \in (DOMAIN d.cooldown) \cup {<<to, m[2]>> : m \in moved} |->
                    IF k[1] = to /\ <<from, k[2]>> \in moved
                    THEN IF k \in DOMAIN d.cooldown
                         THEN Max(d.cooldown[<<from, k[2]>>], d.cooldown[k])
                         ELSE d.cooldown[<<from, k[2]>>]
                    ELSE d.cooldown[k]]
    IN  [d EXCEPT !.cooldown = DeleteKeys(added, moved)]

LinkRow(primary, active, at, id) ==
    [primary |-> primary, active |-> active, created_at |-> at, id |-> id]

UpsertUserIdLink(d, from, to, now) ==
    [d EXCEPT !.links = Upsert(@, from,
        LinkRow(to, TRUE, now,
                IF from \in DOMAIN d.links THEN d.links[from].id
                ELSE Cardinality(DOMAIN d.links) + 1))]

\* UPDATE wallets SET balance = 0 WHERE user_id = ?
ZeroTotalWallet(d, u) == IF u \in DOMAIN d.wallets THEN [d EXCEPT !.wallets[u] = 0] ELSE d

\* the caller has checked MergeLedgerConflict
_merge_user_data(d, from, to, now) ==
    IF from = to THEN d
    ELSE LET d1 == [d EXCEPT
                       !.ledger = [i \in 1..Len(@) |->
                                      IF @[i].user = from THEN [@[i] EXCEPT !.user = to] ELSE @[i]],
                       !.events = {IF e.user = from THEN [e EXCEPT !.user = to] ELSE e : e \in @}]
             d2 == MergeCooldown(d1, from, to)
             d3 == _merge_platform_wallets(d2, from, to)
             d4 == _merge_inventory(d3, from, to)
             d5 == _sync_total_wallet(d4, to)
         IN  UpsertUserIdLink(ZeroTotalWallet(d5, from), from, to, now)

_set_platform_balance(d, u, p, balance) ==
    [_ensure_platform_wallet_row(d, u, p) EXCEPT !.pw[<<u, p>>] = balance]

Recoverable(d, active) ==
    {c \in DOMAIN d.links :
        /\ d.links[c].primary = active /\ d.links[c].active
        /\ c # active
        /\ c \in d.users
        /\ DiscordProfilesOf(d, c) = {} /\ YoutubeProfilesOf(d, c) = {}}

\* ORDER BY created_at DESC, id DESC: the first candidate free of profiles
Newest(d, cands) ==
    LET newer(a, b) == \/ d.links[a].created_at > d.links[b].created_at
                       \/ /\ d.links[a].created_at = d.links[b].created_at
                          /\ d.links[a].id > d.links[b].id
    IN  IF cands = {} THEN NoUser
        ELSE CHOOSE c \in cands : \A o \in cands \ {c} : newer(c, o)

_find_recoverable_inactive_user_id(d, active) == Newest(d, Recoverable(d, active))

\* the identity that receives the moved profile: the recovered one, else a new users row
SplitTarget(d, recovered) == IF recovered # NoUser THEN recovered ELSE NextUserId(d)

\* _split_linked_user once the receiving identity new is known
SplitInto(d, active, keep, move, new, dp, yp) ==
    LET keep_balance == Bal(d, active, "discord") + Bal(d, active, "youtube")
        d1 == [d EXCEPT !.users = @ \cup {new}]
        d2 == IF move = "discord" THEN [d1 EXCEPT !.dprof[dp] = new]
              ELSE [d1 EXCEPT !.yprof[yp] = new]
        d3 == _set_platform_balance(
                  _set_platform_balance(
                      _set_platform_balance(
                          _set_platform_balance(d2, active, keep, keep_balance),
                          active, move, 0),
                      new, move, 0),
                  new, keep, 0)
        d4 == _sync_total_wallet(_sync_total_wallet(d3, active), new)
        d5 == _deactivate_linked_accounts(d4, active)
        d6 == _register_linked_account(d5, active, keep, IF keep = "discord" THEN dp ELSE yp)
        d7 == _register_linked_account(d6, new, move, IF move = "discord" THEN dp ELSE yp)
        d8 == [d7 EXCEPT !.links = [k \in DOMAIN @ |->
                                       IF @[k].primary = active
                                       THEN [@[k] EXCEPT !.active = FALSE] ELSE @[k]]]
    IN  [ok |-> TRUE, err |-> "", d |-> d8, kept |-> active, new |-> new]

\* dp, yp: the rows that SELECT ... WHERE user_id = ? LIMIT 1 returned ("" when none)
_split_linked_user(d, active, keep, dp, yp, now) ==
    IF dp = "" \/ yp = ""
    THEN [ok |-> FALSE, err |-> "not_linked", d |-> d, kept |-> active, new |-> NoUser]
    ELSE SplitInto(d, active, keep, IF keep = "discord" THEN "youtube" ELSE "discord",
                   SplitTarget(d, _find_recoverable_inactive_user_id(d, active)), dp, yp)

-----------------------------------------------------------------------------
(* link_manager.py: the link transactions.  Each returns [ok, err, d, a, b]: *)
(* d is the store left behind, a and b the two user ids of the result.       *)

LinkFail(d, err) == [ok |-> FALSE, err |-> err, d |-> d, a |-> NoUser, b |-> NoUser]
LinkDone(d, a, b) == [ok |-> TRUE, err |-> "", d |-> d, a |-> a, b |-> b]

\* get_or_create_discord_user of user_manager.py: identity and profile exist afterwards
get_or_create_discord_user(d, discord) ==
    IF d.dprof[discord] # NoUser THEN d
    ELSE [d EXCEPT !.users = @ \cup {NextUserId(d)}, !.dprof[discord] = NextUserId(d)]

Token(discord, owner, status, created, expires, by) ==
    [discord |-> discord, owner |-> owner, status |-> status,
     created_at |-> created, expires_at |-> expires, consumed_by |-> by]

\* variant: the earlier codes are left as they are
_invalidate_previous_codes_Keep(d, discord) == d

_invalidate_previous_codes(d, discord) ==
    [d EXCEPT !.tokens = [c \in DOMAIN @ |->
        IF @[c].discord = discord /\ @[c].status = "active"
        THEN [@[c] EXCEPT !.status = "replaced"] ELSE @[c]]]

\* code: the code the generation loop ends with.  The profile that
\* get_or_create_discord_user committed stays when the token transaction fails.
create_discord_link_code(d, discord, code, now) ==
    LET d0 == get_or_create_discord_user(d, discord)
        owner == d0.dprof[discord]
        d1 == _invalidate_previous_codes(d0, discord)
        d2 == [d1 EXCEPT !.tokens = Upsert(@, code,
                  Token(discord, owner, "active", now, now + TokenTtlSeconds, ""))]
    IN  IF code \in DOMAIN d.tokens THEN LinkFail(d0, "storage")
        ELSE LinkDone(d2, owner, NoUser)

\* variant: the status of the token is not looked at
consume_youtube_link_code_AnyStatus(d, code, yt, now) ==
    IF code \notin DOMAIN d.tokens THEN LinkFail(d, "invalid")
    ELSE LET row == d.tokens[code]
             primary == row.owner
             fresh == d.yprof[yt] = NoUser
             secondary == IF fresh THEN NextUserId(d) ELSE d.yprof[yt]
             d1 == IF fresh
                   THEN [d EXCEPT !.users = @ \cup {secondary}, !.yprof[yt] = secondary]
                   ELSE d
             d2 == _merge_user_data(d1, secondary, primary, now)
             d3 == [d2 EXCEPT !.yprof[yt] = primary]
             d4 == _register_linked_account(d3, primary, "discord", row.discord)
             d5 == _register_linked_account(d4, primary, "youtube", yt)
             d6 == [d5 EXCEPT !.tokens[code].status = "consumed",
                              !.tokens[code].consumed_by = yt]
         IN  IF now > row.expires_at
             THEN LinkFail([d EXCEPT !.tokens[code].status = "expired"], "expired")
             ELSE IF secondary # primary /\ MergeLedgerConflict(d1, secondary, primary)
             THEN LinkFail(d, "storage")
             ELSE LinkDone(d6, primary, secondary)

consume_youtube_link_code(d, code, yt, now) ==
    IF code \notin DOMAIN d.tokens THEN LinkFail(d, "invalid")
    ELSE LET row == d.tokens[code]
             primary == row.owner
             fresh == d.yprof[yt] = NoUser
             secondary == IF fresh THEN NextUserId(d) ELSE d.yprof[yt]
             d1 == IF fresh
                   THEN [d EXCEPT !.users = @ \cup {secondary}, !.yprof[yt] = secondary]
                   ELSE d
             d2 == _merge_user_data(d1, secondary, primary, now)
             d3 == [d2 EXCEPT !.yprof[yt] = primary]
             d4 == _register_linked_account(d3, primary, "discord", row.discord)
             d5 == _register_linked_account(d4, primary, "youtube", yt)
             d6 == [d5 EXCEPT !.tokens[code].status = "consumed",
                              !.tokens[code].consumed_by = yt]
         IN  IF row.status # "active" THEN LinkFail(d, "used")
             ELSE IF now > row.expires_at
             THEN LinkFail([d EXCEPT !.tokens[code].status = "expired"], "expired")
             ELSE IF secondary # primary /\ MergeLedgerConflict(d1, secondary, primary)
             THEN LinkFail(d, "storage")
             ELSE LinkDone(d6, primary, secondary)

\* unlink_from_discord (keep = "discord", ext a Discord id) and
\* unlink_from_youtube (keep = "youtube", ext a channel id)
SplitResult(d, r) == IF ~r.ok THEN LinkFail(d, r.err) ELSE LinkDone(r.d, r.kept, r.new)

UnlinkTransaction(d, keep, ext, dp, yp, now) ==
    IF ProfileOwner(d, keep, ext) = NoUser THEN LinkFail(d, "no_profile")
    ELSE SplitResult(d, _split_linked_user(
             d, resolve_active_user_id(d, ProfileOwner(d, keep, ext)), keep, dp, yp, now))

unlink_from_discord(d, discord, dp, yp, now) == UnlinkTransaction(d, "discord", discord, dp, yp, now)

unlink_from_youtube(d, yt, dp, yp, now) == UnlinkTransaction(d, "youtube", yt, dp, yp, now)

\* ty, sy: the rows that the two SELECT ... FROM youtube_profile ... LIMIT 1 returned
force_link_discord_to_universal(d, discord, universal, ty, sy, now) ==
    LET target == resolve_active_user_id(d, universal)
        fresh == d.dprof[discord] = NoUser
        d1 == IF fresh
              THEN [d EXCEPT !.users = @ \cup {NextUserId(d)}, !.dprof[discord] = NextUserId(d)]
              ELSE d
        source == resolve_active_user_id(d1, d1.dprof[discord])
        d2 == _merge_user_data(d1, source, target, now)
        d3 == [d2 EXCEPT !.dprof[discord] = target]
        d4 == _deactivate_linked_accounts(d3, target)
        d5 == _register_linked_account(d4, target, "discord", discord)
        d6 == _register_linked_account(d5, target, "youtube", ty)
        d7 == _sync_total_wallet(d6, target)
    IN  IF target \notin d.users THEN LinkFail(d, "no_user")
        ELSE IF ty = "" THEN LinkFail(d, "not_youtube")
        ELSE IF sy # "" /\ source # target /\ sy # ty THEN LinkFail(d, "already_linked")
        ELSE IF source # target /\ MergeLedgerConflict(d1, source, target)
        THEN LinkFail(d, "storage")
        ELSE LinkDone(d7, target, source)

\* the possible results of SELECT ... LIMIT 1 over a set of rows
LimitOne(S) == IF S = {} THEN {""} ELSE S

-----------------------------------------------------------------------------
(* services/backup/autosave_packager.py *)

\* wall counts half seconds; a calendar day (UTC) has 86400 seconds
TicksPerSecond == 2
SecondsPerDay == 86400
TicksPerDay == TicksPerSecond * SecondsPerDay

\* the smallest interval_seconds the configuration accepts
MIN_INTERVAL_SECONDS == 30

\* _apply_retention: sorted_items[:5] and sorted(...)[:10]
RECENT_KEEP == 5
DAILY_KEEP == 10

\* now.strftime("%Y%m%d_%H%M%S"): the second a time falls in names the snapshot file
_ts_for_file(t) == t \div TicksPerSecond

\* dt.date().isoformat(): the calendar day of a created_at
DayKey(t) == t \div TicksPerDay

BackupItem(id, created_at, file_path) ==
    [id |-> id, created_at |-> created_at, file_path |-> file_path]

EmptyDisk == [manifest |-> <<>>, files |-> {}, last_run_at |-> <<>>]

\* position of e in a list sorted by created_at, newest first; equal keys keep the
\* order in which they came (sorted is stable, with reverse=True as well)
RECURSIVE InsertNewestFirst(_, _)
InsertNewestFirst(s, e) ==
    IF s = <<>> THEN <<e>>
    ELSE IF Head(s).created_at >= e.created_at
    THEN <<Head(s)>> \o InsertNewestFirst(Tail(s), e)
    ELSE <<e>> \o s

RECURSIVE SortInto(_, _)
SortInto(acc, backups) ==
    IF backups = <<>> THEN acc
    ELSE SortInto(InsertNewestFirst(acc, Head(backups)), Tail(backups))

\* sorted(backups, key=to_dt, reverse=True)
SortedNewestFirst(backups) == SortInto(<<>>, backups)

Take(s, n) == SubSeq(s, 1, Min(n, Len(s)))
Drop(s, n) == SubSeq(s, n + 1, Len(s))

\* older_by_day: the first item of every day_key, walking the list in its order
RECURSIVE FirstPerDay(_, _)
FirstPerDay(items, seen) ==
    IF items = <<>> THEN <<>>
    ELSE IF DayKey(Head(items).created_at) \in seen THEN FirstPerDay(Tail(items), seen)
    ELSE <<Head(items)>>
             \o FirstPerDay(Tail(items), seen \cup {DayKey(Head(items).created_at)})

IdsOf(items) == {items[i].id : i \in 1..Len(items)}

\* _next_backup_id
_next_backup_id(backups) ==
    IF backups = <<>> THEN 1
    ELSE (CHOOSE m \in IdsOf(backups) : \A x \in IdsOf(backups) : x <= m) + 1

DaysOf(items) == {DayKey(items[i].created_at) : i \in 1..Len(items)}

\* variant: every day of the older snapshots is kept
KeepIds_NoDailyLimit(sorted_items) ==
    IdsOf(Take(sorted_items, RECENT_KEEP))
        \cup IdsOf(FirstPerDay(Drop(sorted_items, RECENT_KEEP), {}))

\* variant: a day that has a snapshot among the most recent ones keeps no older snapshot
KeepIds_EarlierDaysOnly(sorted_items) ==
    IdsOf(Take(sorted_items, RECENT_KEEP))
        \cup IdsOf(Take(FirstPerDay(Drop(sorted_items, RECENT_KEEP),
                                    DaysOf(Take(sorted_items, RECENT_KEEP))),
                        DAILY_KEEP))

\* keep_ids: recent_keep + older_keep
KeepIds(sorted_items) ==
    IdsOf(Take(sorted_items, RECENT_KEEP))
        \cup IdsOf(Take(SortedNewestFirst(FirstPerDay(Drop(sorted_items, RECENT_KEEP), {})),
                        DAILY_KEEP))

KeptItems(sorted_items, keep_ids) ==
    LET Kept(item) == item.id \in keep_ids
    IN  SelectSeq(sorted_items, Kept)

\* the files the sweep unlinks: the file_path of every item that is not kept
UnlinkedFiles(sorted_items, keep_ids) ==
    {sorted_items[i].file_path : i \in {j \in 1..Len(sorted_items) : sorted_items[j].id \notin keep_ids}}

Retained(files, sorted_items, keep_ids) ==
    [backups |-> SortedNewestFirst(KeptItems(sorted_items, keep_ids)),
     files |-> files \ UnlinkedFiles(sorted_items, keep_ids)]

SweepSorted(files, sorted_items) == Retained(files, sorted_items, KeepIds(sorted_items))

\* _apply_retention: returns the list to store; files is the snapshot directory
_apply_retention(files, backups) == SweepSorted(files, SortedNewestFirst(backups))

\* _create_snapshot_file: shutil.copy2 onto snapshots/autosave_<ts>.db
_create_snapshot_file(dk, now) == [dk EXCEPT !.files = @ \cup {_ts_for_file(now)}]

StoreManifest(dk, swept, now) ==
    [manifest |-> swept.backups, files |-> swept.files, last_run_at |-> <<now>>]

\* backups.append(backup_item), _apply_retention, _save_manifest, set_last_run_now
RecordItem(dk, backup_item, now) ==
    StoreManifest(dk, _apply_retention(dk.files, Append(dk.manifest, backup_item)), now)

\* create_autosave from _load_manifest on: the item, the retention sweep, the save of
\* the manifest and set_last_run_now
RecordAutosave(dk, snapshot_file, now) ==
    RecordItem(dk, BackupItem(_next_backup_id(dk.manifest), now, snapshot_file), now)

\* create_autosave in one piece: the snapshot is copied at time now, the manifest is
\* written at time done
create_autosave(dk, now, done) ==
    RecordAutosave(_create_snapshot_file(dk, now), _ts_for_file(now), done)

\* list_backups
list_backups(dk) == SortedNewestFirst(dk.manifest)

DeleteTarget(dk, target) ==
    LET Other(item) == item.id # target.id
    IN  [dk EXCEPT !.manifest = SelectSeq(@, Other), !.files = @ \ {target.file_path}]

\* delete_backup_by_index: returns [ok, dk]
delete_backup_by_index(dk, index_1_based) ==
    IF index_1_based <= 0 \/ index_1_based > Len(dk.manifest) THEN [ok |-> FALSE, dk |-> dk]
    ELSE [ok |-> TRUE, dk |-> DeleteTarget(dk, list_backups(dk)[index_1_based])]

\* variant: the interval has to be exceeded
AutosaveDue_Strict(dk, now, interval_seconds) ==
    IF dk.last_run_at = <<>> THEN TRUE
    ELSE now - dk.last_run_at[1] > interval_seconds * TicksPerSecond

\* run_due_autosave_if_needed with autosave enabled: no last run, or the interval is over
AutosaveDue(dk, now, interval_seconds) ==
    IF dk.last_run_at = <<>> THEN TRUE
    ELSE now - dk.last_run_at[1] >= interval_seconds * TicksPerSecond


-----------------------------------------------------------------------------
(* services/backup: the mirror, the scheduler and recovery *)

\* BackupAutosaveConfigManager.load_config: interval_seconds is never below 30
load_config(cfg) == [cfg EXCEPT !.interval_seconds = Max(MIN_INTERVAL_SECONDS, @)]

\* what a call to the remote store does: it answers; connect_mysql raises; or a statement
\* fails after the connection was made, with what was written rolled back or kept
RemoteOutcomes == {"ok", "refused", "rolled_back", "partial"}

\* cleanup_mysql_residual_tables with a database name configured: TRUE if it raises
\* (connect_mysql is outside the try, and the try has no except)
cleanup_mysql_residual_tables(c) == c # "ok"

\* sync_sqlite_to_mysql(tag): every table of the local database replaces its copy in
\* MySQL and a metadata row carries the tag.  Returns [raised, ok, msg, m]; remote 0 is
\* a mirror that is no copy of any state of the local database
sync_sqlite_to_mysql(m, s, tag) ==
    IF s = "refused" THEN [raised |-> TRUE, ok |-> FALSE, msg |-> "", m |-> m]
    ELSE IF s = "ok"
    THEN [raised |-> FALSE, ok |-> TRUE, msg |-> "completada",
          m |-> [m EXCEPT !.remote = m.local, !.tag = tag]]
    ELSE [raised |-> FALSE, ok |-> FALSE, msg |-> "Error sincronizando",
          m |-> [m EXCEPT !.remote = IF s = "partial" THEN 0 ELSE @]]

\* backup_item with the result of the mirror step
MirroredItem(id, created_at, file_path, ok, msg) ==
    [id |-> id, created_at |-> created_at, file_path |-> file_path,
     mysql_sync_ok |-> ok, mysql_sync_message |-> msg]

\* shutil.copy2(DB_PATH, snapshot_file): the file holds the local database of that moment
CopySnapshot(m, file) ==
    [m EXCEPT !.snap = [f \in DOMAIN @ \cup {file} |-> IF f = file THEN m.local ELSE @[f]]]

\* create_autosave after the snapshot: the mirror step r, then the manifest
MirrorAndRecord(dk, r, file, done) ==
    IF r.raised THEN [raised |-> TRUE, dk |-> dk, m |-> r.m]
    ELSE [raised |-> FALSE,
          dk |-> RecordItem(dk, MirroredItem(_next_backup_id(dk.manifest), done, file,
                                             r.ok, r.msg), done),
          m |-> r.m]

\* create_autosave with the remote store as it answers: c to the cleanup, s to the
\* mirror step.  Returns [raised, dk, m]
create_autosave_remote(dk, m, now, done, c, s) ==
    IF cleanup_mysql_residual_tables(c) THEN [raised |-> TRUE, dk |-> dk, m |-> m]
    ELSE MirrorAndRecord(_create_snapshot_file(dk, now),
                         sync_sqlite_to_mysql(CopySnapshot(m, _ts_for_file(now)), s,
                                              <<"autosave", _ts_for_file(now)>>),
                         _ts_for_file(now), done)

\* run_due_autosave_if_needed: [ran, raised, dk, m]
run_due_autosave_if_needed(dk, m, now, done, c, s) ==
    IF ~load_config(m.cfg).enabled
           \/ ~AutosaveDue(dk, now, load_config(m.cfg).interval_seconds)
    THEN [ran |-> FALSE, raised |-> FALSE, dk |-> dk, m |-> m]
    ELSE [ran |-> TRUE] @@ create_autosave_remote(dk, m, now, done, c, s)

\* recover_backup_by_index after the index check: the snapshot file replaces the local
\* database, then the mirror step tagged recovery_<ts>
RestoreFrom(m, file, now, s) ==
    sync_sqlite_to_mysql([m EXCEPT !.local = m.snap[file]], s, <<"recovery", _ts_for_file(now)>>)

\* recover_backup_by_index: [raised, ok, m]
recover_backup_by_index(dk, m, index_1_based, now, s) ==
    IF index_1_based <= 0 \/ index_1_based > Len(dk.manifest)
    THEN [raised |-> FALSE, ok |-> FALSE, m |-> m]
    ELSE IF list_backups(dk)[index_1_based].file_path \notin dk.files
    THEN [raised |-> FALSE, ok |-> FALSE, m |-> m]
    ELSE [x \in {"raised", "ok", "m"} |->
              RestoreFrom(m, list_backups(dk)[index_1_based].file_path, now, s)[x]]


-----------------------------------------------------------------------------
(* managers/stream_manager.py and the autostream loop of the console *)

\* what liveBroadcasts.list answers: the call fails or times out, no item, or the
\* broadcast that is live
VideoIds == {"V", "W"}
Responses == {"error", ""} \cup VideoIds

\* variant: a live stream that changes its video is not a change
detect_stream_LiveOnly(st, response) ==
    IF response = "error"
    THEN [st |-> st, is_live |-> st.is_live, video_id |-> st.video_id, changed |-> FALSE]
    ELSE IF response = ""
    THEN [st |-> [st EXCEPT !.is_live = FALSE, !.video_id = ""],
          is_live |-> FALSE, video_id |-> "", changed |-> st.is_live]
    ELSE [st |-> [st EXCEPT !.is_live = TRUE, !.video_id = response],
          is_live |-> TRUE, video_id |-> response, changed |-> ~st.is_live]

\* StreamManager.detect_stream: [st, is_live, video_id, changed]; video_id "" is None
detect_stream(st, response) ==
    IF response = "error"
    THEN [st |-> st, is_live |-> st.is_live, video_id |-> st.video_id, changed |-> FALSE]
    ELSE IF response = ""
    THEN [st |-> [st EXCEPT !.is_live = FALSE, !.video_id = ""],
          is_live |-> FALSE, video_id |-> "", changed |-> st.is_live]
    ELSE [st |-> [st EXCEPT !.is_live = TRUE, !.video_id = response],
          is_live |-> TRUE, video_id |-> response,
          changed |-> ~st.is_live \/ st.video_id # response]

\* variant: the listener is started and stopped on changed only
AutostreamListener_OnChange(yapi, r, found) ==
    IF ~r.changed THEN yapi
    ELSE IF r.is_live THEN yapi \/ found
    ELSE FALSE

\* _start_autostream_loop after the detection: not live and YAPI active, it is shut
\* down; live and YAPI not active, _start_yapi_runtime is called and finds the live
\* chat or not.  Returns whether the listener is running
AutostreamListener(yapi, r, found) ==
    IF ~r.is_live /\ yapi THEN FALSE
    ELSE IF r.is_live /\ ~yapi THEN found
    ELSE yapi


-----------------------------------------------------------------------------
(* console/commands/<worker>/general.py: the worker processes of the console *)

Workers == {"web", "wsocket", "discord", "backup"}

\* `<worker> autorun`, `<worker> autorun true` and `<worker> autorun false`
AutorunActions == {"autorun", "autorun true", "autorun false"}

\* a worker's record: proc is "none" (no Popen handle), "alive", or "exited" (the handle
\* of a process that has ended); enabled is the persisted toggle, autorun the
\* persisted autorun flag
Worker(proc, enabled, autorun) == [proc |-> proc, enabled |-> enabled, autorun |-> autorun]

\* what a spawned process does during the grace delay: it lives, or it has ended with
\* an exit code and, possibly, text on stderr
Exits ==
    {[died |-> FALSE, code |-> 0, line |-> ""],
     [died |-> TRUE, code |-> 1, line |-> "ModuleNotFoundError"],
     [died |-> TRUE, code |-> 2, line |-> ""]}

\* variant: a handle is taken for a running process
_is_running_HandleOnly(h) == h.proc # "none"

\* _is_backup_running, _is_web_running, _is_discord_running, is_websocket_running
_is_running(h) == h.proc = "alive"

\* _start_backup_process and its three siblings: Popen, the grace delay, poll().
\* Returns [ok, h, msg]; the failure message carries the exit code and the last line
\* of stderr
_start_process(h, exit) ==
    IF _is_running(h) THEN [ok |-> TRUE, h |-> h, msg |-> <<"already">>]
    ELSE IF exit.died
    THEN [ok |-> FALSE, h |-> [h EXCEPT !.proc = "none"], msg |-> <<exit.code, exit.line>>]
    ELSE [ok |-> TRUE, h |-> [h EXCEPT !.proc = "alive"], msg |-> <<"started">>]

\* _stop_backup_process and its siblings
_stop_process(h) == [h EXCEPT !.proc = "none"]

\* the toggle after a start: set_enabled(ok)
Started(r) == [ok |-> r.ok, h |-> [r.h EXCEPT !.enabled = r.ok], msg |-> r.msg]

\* websocket start_if_autorun after the start: set_enabled(True) on success only
StartedWsocket(r) ==
    [ok |-> r.ok, h |-> [r.h EXCEPT !.enabled = IF r.ok THEN TRUE ELSE @], msg |-> r.msg]

\* start_if_autorun of the worker kind; the websocket one leaves the toggle alone when
\* autorun is off and when the start fails
start_if_autorun(kind, h, exit) ==
    IF ~h.autorun
    THEN [ok |-> FALSE,
          h |-> IF kind = "wsocket" THEN h ELSE [h EXCEPT !.enabled = FALSE],
          msg |-> <<"desactivado">>]
    ELSE IF kind = "wsocket" THEN StartedWsocket(_start_process(h, exit))
    ELSE Started(_start_process(h, exit))

\* the autorun subcommand: cmd_backup, cmd_web and cmd_discord read the token after
\* it, cmd_wsocket toggles whatever follows
autorun_command(kind, autorun, action) ==
    IF kind = "wsocket" \/ action = "autorun" THEN ~autorun
    ELSE action = "autorun true"

\* variant: toggle looks at the process only
cmd_worker_ToggleOnProcess(kind, h, action, exit) ==
    CASE action = "on" -> Started(_start_process(h, exit))
      [] action = "off" ->
             [ok |-> TRUE, h |-> [_stop_process(h) EXCEPT !.enabled = FALSE], msg |-> <<"off">>]
      [] action = "toggle" ->
             IF _is_running(h)
             THEN [ok |-> TRUE, h |-> [_stop_process(h) EXCEPT !.enabled = FALSE],
                   msg |-> <<"off">>]
             ELSE Started(_start_process(h, exit))
      [] action \in AutorunActions ->
             [ok |-> TRUE, h |-> [h EXCEPT !.autorun = autorun_command(kind, @, action)],
              msg |-> <<"autorun">>]
      [] action = "status" ->
             [ok |-> TRUE, h |-> h, msg |-> <<"status", _is_running(h), h.enabled>>]

\* cmd_backup and its siblings: on, off, toggle, autorun, status
cmd_worker(kind, h, action, exit) ==
    CASE action = "on" -> Started(_start_process(h, exit))
      [] action = "off" ->
             [ok |-> TRUE, h |-> [_stop_process(h) EXCEPT !.enabled = FALSE], msg |-> <<"off">>]
      [] action = "toggle" ->
             IF _is_running(h) \/ h.enabled
             THEN [ok |-> TRUE, h |-> [_stop_process(h) EXCEPT !.enabled = FALSE],
                   msg |-> <<"off">>]
             ELSE Started(_start_process(h, exit))
      [] action \in AutorunActions ->
             [ok |-> TRUE, h |-> [h EXCEPT !.autorun = autorun_command(kind, @, action)],
              msg |-> <<"autorun">>]
      [] action = "status" ->
             [ok |-> TRUE, h |-> h, msg |-> <<"status", _is_running(h), h.enabled>>]


-----------------------------------------------------------------------------
(* services/events_websocket/websocket_core.py: the broadcast hub *)

Peers == {"a", "b", "c"}

\* the frame `ping`, character by character
PingText == <<"p", "i", "n", "g">>

\* text frames a peer sends: the literal ping, a ping in capitals behind a blank, and
\* an event
Frames == {PingText, <<" ", "P", "I", "N", "G">>, <<"h", "i">>}

LowerCase == [P |-> "p", I |-> "i", N |-> "n", G |-> "g"]

\* str.lower()
str_lower(text) ==
    [i \in 1..Len(text) |-> IF text[i] \in DOMAIN LowerCase THEN LowerCase[text[i]] ELSE text[i]]

\* str.strip()
RECURSIVE str_strip(_)
str_strip(text) ==
    IF text = <<>> THEN text
    ELSE IF Head(text) = " " THEN str_strip(Tail(text))
    ELSE IF text[Len(text)] = " " THEN str_strip(SubSeq(text, 1, Len(text) - 1))
    ELSE text

\* variant: only the frame that is exactly `ping` is a ping
is_ping_Literal(message) == message = PingText

\* _ws_handler: message.strip().lower() == "ping"
is_ping(message) == str_lower(str_strip(message)) = PingText

\* what a peer receives: the greeting, a pong, or a frame; id numbers the frame the
\* hub received
Item(type, payload, id) == [type |-> type, payload |-> payload, id |-> id]

\* the loop of ConnectionHub.broadcast for one payload: start is the set it began to
\* iterate and size its length then, visited the peers it has reached, cur the peer whose send it awaits, dead
\* the peers whose send failed, and stayed the peers of start that have been
\* connected ever since
NoBroadcast ==
    [payload |-> <<>>, id |-> 0, size |-> 0, start |-> {}, visited |-> {}, cur |-> "a",
     dead |-> {}, stayed |-> {}]

\* the set iterator: "Set changed size during iteration"
SetChangedSize(h, b) == Cardinality(h.conns) # b.size

\* the peers of the set the iterator has still to reach: those it began with, and
\* those that took the place of one that left, which it may reach or not
MustVisit(h, b) == (b.start \cap h.conns) \ b.visited
MayVisit(h, b) == (h.conns \ b.start) \ b.visited

\* ws.send_text(payload) to the peer q: delivered, or an exception when its socket is
\* closed
send_text(h, q, item) ==
    IF h.sock[q] = "open" THEN [h EXCEPT !.inbox[q] = Append(@, item)] ELSE h

\* the peers qs are no longer connected: no broadcast counts them as having stayed
Left(h, qs) == [h EXCEPT !.bc = [p \in Peers |-> [@[p] EXCEPT !.stayed = @ \ qs]]]

\* a connection of p that is accepted now is another object than any earlier
\* connection of p a running broadcast knows
Fresh(h, p) ==
    [h EXCEPT !.bc = [r \in Peers |-> [@[r] EXCEPT !.start = @ \ {p}, !.visited = @ \ {p},
                                                  !.dead = @ \ {p}]]]

\* ConnectionHub.disconnect for each of the peers qs
disconnect(h, qs) == Left([h EXCEPT !.conns = @ \ qs], qs)

\* the peer q holds the frame id
Got(h, q, id) == \E i \in 1..Len(h.inbox[q]) : h.inbox[q][i].type = "frame" /\ h.inbox[q][i].id = id


-----------------------------------------------------------------------------
(* economy_external_events.json: the queue of progress events between processes *)

\* the processes that enqueue: the YouTube bot and the console
Producers == {"youtube", "console"}

\* max_items of a pop
PopSizes == {1, 2}

\* _enqueue_progress_event: queue.append(event) on what was loaded
enqueue_append(loaded, event) == Append(loaded, event)

\* pop_external_platform_progress_events: loaded[:max_items] and loaded[max_items:]
pop_split(loaded, max_items) ==
    [events |-> Take(loaded, max_items), remaining |-> Drop(loaded, max_items)]


-----------------------------------------------------------------------------
(* services/discord_bot/economy/economy_channel.py: milestones and bankruptcy *)

\* the first levels of MILESTONE_LEVELS, in thousandths of a point
MILESTONE_LEVELS == <<Pt(10), Pt(50)>>

\* 0.99 of a point
BANKRUPTCY_THRESHOLD == 990

\* the user_state_key of two members of one guild
Members == {"discord:1", "youtube:Y"}

\* the balances an update moves between: nothing, half a point, 10 and 60 points
Balances == {0, 500, Pt(10), Pt(60)}

Levels == {MILESTONE_LEVELS[i] : i \in 1..Len(MILESTONE_LEVELS)}

\* _load_state and _ensure_user_state: the milestones of every member, none for a
\* member the file does not have
NoMilestones == [u \in Members |-> {}]

\* notify_economy_progress_if_needed, lines 216-223
pending_levels(already_notified, new_value) ==
    SelectSeq(MILESTONE_LEVELS, LAMBDA level : level \notin already_notified /\ new_value >= level)

\* variant: a balance at or under the threshold is a bankruptcy whatever it was before
is_bankruptcy_NewOnly(prev_value, new_value) == new_value <= BANKRUPTCY_THRESHOLD

\* notify_economy_progress_if_needed, line 233
is_bankruptcy(prev_value, new_value) ==
    prev_value > BANKRUPTCY_THRESHOLD /\ new_value <= BANKRUPTCY_THRESHOLD

\* _save_state(guild_id, state): the file becomes the state the notification loaded,
\* with the milestones of its own member replaced
_save_state(state, user, milestones) == [state EXCEPT ![user] = milestones]

\* a notification between its load and its save: state is what _load_state returned,
\* pending the levels still to send, already_notified the set it has built so far,
\* phase says which send it awaits
Notification(user, prev, new, state, pending, already_notified, phase) ==
    [user |-> user, prev |-> prev, new |-> new, state |-> state, pending |-> pending,
     already_notified |-> already_notified, phase |-> phase]

\* notify_economy_progress_if_needed, lines 212-233, up to its first await: nothing to
\* do, a first milestone to send, or the bankruptcy notice to send
begin_notification(file, user, prev, new) ==
    LET pending == pending_levels(file[user], new)
    IN  Notification(user, prev, new, file, pending, file[user],
                     IF pending # <<>> THEN "levels"
                     ELSE IF is_bankruptcy(prev, new) THEN "bankrupt"
                     ELSE "none")

-----------------------------------------------------------------------------
(* State of the backup service, the workers and the stream watcher *)

IdleMirror ==
    [cfg |-> [enabled |-> FALSE, interval_seconds |-> MIN_INTERVAL_SECONDS], poll |-> 0,
     local |-> 1, snap |-> [f \in {} |-> 0], remote |-> 0, tag |-> <<>>, worker |-> "off"]

IdleSup == [phase |-> "off", w |-> [k \in Workers |-> Worker("none", FALSE, FALSE)]]

IdleStream == [is_live |-> FALSE, video_id |-> "", yapi |-> FALSE]

\* no peer is connected
IdleHub ==
    [conns |-> {}, sock |-> [p \in Peers |-> "closed"], handler |-> [p \in Peers |-> "off"],
     bc |-> [p \in Peers |-> NoBroadcast], inbox |-> [p \in Peers |-> <<>>],
     joins |-> 0, frames |-> 0]

\* no progress event is queued and no producer or consumer is at work: file is the
\* list in the queue file (empty when there is no file), prod what each producer has
\* loaded, cons what the consumer has loaded, returned every event the pops have
\* returned, made the number of events so far and pops the number of pops
IdleQueue ==
    [file |-> <<>>,
     prod |-> [P \in Producers |-> [pc |-> "idle", queue |-> <<>>, event |-> 0]],
     cons |-> [pc |-> "idle", loaded |-> <<>>, max_items |-> 0],
     returned |-> <<>>, made |-> 0, pops |-> 0]

\* no notification has been sent in the guild: file is the guild's state file, bal the
\* balance of each member, tasks the notifications between load and save, announced
\* how often each level was announced to a member since the member's last bankruptcy
\* notice, updates the number of balance updates
IdleChannel ==
    [file |-> NoMilestones, bal |-> [u \in Members |-> 0], tasks |-> <<>>,
     announced |-> [u \in Members |-> [level \in Levels |-> 0]], updates |-> 0]

IdleServices == hub = IdleHub /\ pq = IdleQueue /\ chan = IdleChannel

-----------------------------------------------------------------------------
(* State *)

EmptyFn == [x \in {} |-> 0]

EmptyDb ==
    [users |-> {}, dprof |-> [x \in DiscordIds |-> NoUser], yprof |-> [x \in YoutubeIds |-> NoUser],
     pw |-> EmptyFn, wallets |-> EmptyFn, ledger |-> <<>>, events |-> {}, cooldown |-> EmptyFn,
     inv |-> EmptyFn, tokens |-> EmptyFn, links |-> EmptyFn, linked |-> {}]

\* what the last finished step returned
Res(op, ok, err, ext, code, a, b, amount) ==
    [op |-> op, ok |-> ok, err |-> err, ext |-> ext, code |-> code,
     a |-> a, b |-> b, amount |-> amount]

\* an operation between its reads and its transaction: args are the user ids it was
\* called with, uid and uid2 what resolve_active_user_id returned for them
Pending(op, platform, ext, args, uid, uid2, amount, interval, scope, source, now) ==
    [op |-> op, platform |-> platform, ext |-> ext, args |-> args, uid |-> uid, uid2 |-> uid2,
     amount |-> amount, interval |-> interval, scope |-> scope, source |-> source, now |-> now]

RemoveAt(q, i) == [j \in 1..(Len(q) - 1) |-> IF j < i THEN q[j] ELSE q[j + 1]]

LedgerRoom(n) == Len(db.ledger) + n <= MaxLedger
UserRoom(d) == NextUserId(d) <= MaxUsers

\* the transaction result r is installed and reported
Finish(op, r, ext, code, a, b, amount) ==
    /\ db' = r.d
    /\ last' = Res(op, r.ok, r.err, ext, code, a, b, IF r.ok THEN amount ELSE 0)

FinishLink(op, r, ext, code) == Finish(op, r, ext, code, r.a, r.b, 0)

\* a split that needs a new users row waits for room in UserIds
FinishUnlink(r, ext, keep) ==
    /\ UserRoom(db) \/ ~r.ok \/ r.b \in db.users
    /\ FinishLink("unlink", r, ext, keep)

\* every operation a worker begins counts against MaxOps; the operations of the
\* economy and of the link registry leave the backup directory alone
Begin == nops < MaxOps /\ nops' = nops + 1 /\ UNCHANGED <<bvars, ovars>>


-----------------------------------------------------------------------------
(* Economy actions *)

Tick(steps, limit) ==
    \E s \in steps :
        /\ clock + s <= limit
        /\ clock' = clock + s
        /\ last' = Res("tick", TRUE, "", "", "", NoUser, NoUser, 0)
        /\ UNCHANGED <<db, inflight, nops, bvars, ovars>>

\* the profile that award_message_points / award_youtube_message_points looks up
AwardProfile(d, platform, ext) ==
    IF platform = "discord" THEN get_discord_profile_by_discord_id(d, ext)
    ELSE get_youtube_profile_by_channel_id(d, ext)

\* award_message_points / award_youtube_message_points up to BEGIN IMMEDIATE
StartAward(platform, ext, scope, amount, interval, source) ==
    LET amt == RoundAmount(amount)
        owner == AwardProfile(db, platform, ext)
    IN  /\ Begin
        /\ IF amt <= 0 \/ interval < 0 \/ owner = NoUser
           THEN /\ last' = Res("award", FALSE, "rejected", ext, source, NoUser, NoUser, 0)
                /\ UNCHANGED <<db, clock, inflight>>
           ELSE /\ Len(inflight) < MaxInflight
                /\ LedgerRoom(1)
                /\ inflight' = Append(inflight,
                       Pending("award", platform, ext, <<owner>>, resolve_active_user_id(db, owner), NoUser,
                               amt, interval, scope, source, clock))
                /\ last' = Res("start", TRUE, "", ext, "", NoUser, NoUser, 0)
                /\ UNCHANGED <<db, clock>>

CommitAward(i) ==
    /\ i \in 1..Len(inflight)
    /\ inflight[i].op = "award"
    /\ LET o == inflight[i]
           r == IF o.platform = "discord"
                THEN award_message_points(db, o.uid, o.scope, o.amount, o.interval, o.source, o.now)
                ELSE award_youtube_message_points(db, o.uid, o.scope, o.amount, o.interval,
                                                  o.source, o.now)
       IN  /\ LedgerRoom(1)
           /\ Finish("award", r, o.ext, o.source, o.uid, NoUser, o.amount)
    /\ inflight' = RemoveAt(inflight, i)
    /\ UNCHANGED <<clock, nops, bvars, ovars>>

NormalizePlatform(platform) == IF platform \in SUPPORTED_PLATFORMS THEN platform ELSE "discord"

\* apply_balance_delta up to BEGIN IMMEDIATE; a zero delta only reports the total
StartDelta(user, delta, reason, platform, source) ==
    LET resolved == resolve_active_user_id(db, user)
        dl == RoundAmount(delta)
    IN  /\ Begin
        /\ IF dl = 0
           THEN /\ db' = get_user_balance_by_id(db, resolved)
                /\ last' = Res("delta", TRUE, "", "", source, resolved, NoUser, 0)
                /\ UNCHANGED <<clock, inflight>>
           ELSE /\ Len(inflight) < MaxInflight
                /\ LedgerRoom(1)
                /\ inflight' = Append(inflight,
                       Pending("delta", NormalizePlatform(platform), reason, <<user>>, resolved, NoUser,
                               dl, 0, "", source, clock))
                /\ last' = Res("start", TRUE, "", "", "", NoUser, NoUser, 0)
                /\ UNCHANGED <<db, clock>>

CommitDelta(i) ==
    /\ i \in 1..Len(inflight)
    /\ inflight[i].op = "delta"
    /\ LET o == inflight[i]
           r == apply_balance_delta(db, o.uid, o.amount, o.ext, o.platform, o.source, clock)
       IN  /\ LedgerRoom(1)
           /\ Finish("delta", r, "", o.source, o.uid, NoUser, o.amount)
    /\ inflight' = RemoveAt(inflight, i)
    /\ UNCHANGED <<clock, nops, bvars, ovars>>

\* transfer_points up to BEGIN IMMEDIATE
StartTransfer(from_user, to_user, amount, platform) ==
    LET amt == RoundAmount(amount)
        from == resolve_active_user_id(db, from_user)
        to == resolve_active_user_id(db, to_user)
    IN  /\ Begin
        /\ IF amt <= 0
           THEN /\ last' = Res("transfer", FALSE, "amount", "", "", NoUser, NoUser, 0)
                /\ UNCHANGED <<db, clock, inflight>>
           ELSE IF from = to
           THEN /\ last' = Res("transfer", FALSE, "self", "", "", from, to, 0)
                /\ UNCHANGED <<db, clock, inflight>>
           ELSE /\ Len(inflight) < MaxInflight
                /\ LedgerRoom(2)
                /\ inflight' = Append(inflight,
                       Pending("transfer", NormalizePlatform(platform), "", <<from_user, to_user>>, from, to,
                               amt, 0, "", NoSource, clock))
                /\ last' = Res("start", TRUE, "", "", "", NoUser, NoUser, 0)
                /\ UNCHANGED <<db, clock>>

CommitTransfer(i) ==
    /\ i \in 1..Len(inflight)
    /\ inflight[i].op = "transfer"
    /\ LET o == inflight[i]
           r == transfer_points(db, o.uid, o.uid2, o.amount, o.platform, clock)
       IN  /\ LedgerRoom(2)
           /\ Finish("transfer", r, "", "", o.uid, o.uid2, o.amount)
    /\ inflight' = RemoveAt(inflight, i)
    /\ UNCHANGED <<clock, nops, bvars, ovars>>

\* process_gamble_command up to _apply_balance_delta: the lookup, the balance read
\* and the validation of the bet against it; the net result of the roll is +bet or -bet
StartGamble(yt, bet, won, source) ==
    LET user == find_user_by_youtube_channel_id(db, yt)
    IN  /\ Begin
        /\ user # NoUser
        /\ validate_gamble(_get_current_balance(db, user), bet)
        /\ Len(inflight) < MaxInflight
        /\ LedgerRoom(1)
        /\ inflight' = Append(inflight,
               Pending("gamble", "youtube", yt, <<user>>, user, NoUser,
                       IF won THEN bet ELSE 0 - bet, 0, "", source, clock))
        /\ last' = Res("start", TRUE, "", yt, "", NoUser, NoUser, 0)
        /\ UNCHANGED <<db, clock>>

CommitGamble(i) ==
    /\ i \in 1..Len(inflight)
    /\ inflight[i].op = "gamble"
    /\ LET o == inflight[i]
           r == _apply_balance_delta(db, o.uid, o.amount, o.source, clock)
       IN  /\ LedgerRoom(1)
           /\ Finish("gamble", r, o.ext, o.source, o.uid, NoUser, o.amount)
    /\ inflight' = RemoveAt(inflight, i)
    /\ UNCHANGED <<clock, nops, bvars, ovars>>

-----------------------------------------------------------------------------
(* Link actions: each is one transaction *)

CreateLinkCode(discord, code) ==
    LET r == create_discord_link_code(db, discord, code, clock)
    IN  /\ Begin
        /\ UserRoom(db) \/ db.dprof[discord] # NoUser
        /\ FinishLink("create", r, discord, code)
        /\ UNCHANGED <<clock, inflight>>

ConsumeLinkCode(code, yt) ==
    LET r == consume_youtube_link_code(db, code, yt, clock)
    IN  /\ Begin
        /\ UserRoom(db) \/ db.yprof[yt] # NoUser
        /\ FinishLink("consume", r, yt, code)
        /\ UNCHANGED <<clock, inflight>>

Unlink(keep, ext) ==
    LET active == resolve_active_user_id(db, ProfileOwner(db, keep, ext))
    IN  \E dp \in LimitOne(DiscordProfilesOf(db, active)),
           yp \in LimitOne(YoutubeProfilesOf(db, active)) :
            LET r == IF keep = "discord" THEN unlink_from_discord(db, ext, dp, yp, clock)
                     ELSE unlink_from_youtube(db, ext, dp, yp, clock)
            IN  /\ Begin
                /\ FinishUnlink(r, ext, keep)
                /\ UNCHANGED <<clock, inflight>>

ForceLink(discord, universal) ==
    LET target == resolve_active_user_id(db, universal)
        source == IF db.dprof[discord] = NoUser THEN NextUserId(db)
                  ELSE resolve_active_user_id(db, db.dprof[discord])
    IN  \E ty \in LimitOne(YoutubeProfilesOf(db, target)),
           sy \in LimitOne(YoutubeProfilesOf(db, source)) :
            LET r == force_link_discord_to_universal(db, discord, universal, ty, sy, clock)
            IN  /\ Begin
                /\ UserRoom(db) \/ db.dprof[discord] # NoUser
                /\ FinishLink("force_link", r, discord, "")
                /\ UNCHANGED <<clock, inflight>>

-----------------------------------------------------------------------------
(* Specifications *)

Intervals == {0, 60}

\* identity 1 owns D1, identity 2 owns Y1, identity 3 owns D2; Y2 has not been seen yet
BaseDb ==
    [EmptyDb EXCEPT !.users = {1, 2, 3},
                    !.dprof = [x \in DiscordIds |-> IF x = "D1" THEN 1 ELSE 3],
                    !.yprof = [x \in YoutubeIds |-> IF x = "Y1" THEN 2 ELSE NoUser]]

\* BaseDb after admin credits: identity 1 holds discord 150, identity 2 holds youtube 200,
\* and both hold an inventory item
FundedDb ==
    LET d1 == apply_balance_delta(BaseDb, 1, Pt(150), "admin_add_points", "discord", NoSource, 0).d
        d2 == apply_balance_delta(d1, 2, Pt(200), "admin_add_points", "youtube", NoSource, 0).d
    IN  [d2 EXCEPT !.inv = [k \in {<<1, "pick">>, <<2, "pick">>} |-> k[1]]]

\* BaseDb after message awards whose source ids differ (s2 = "m2") or coincide (s2 = "m1")
EarnedDb(s2) ==
    LET d1 == award_message_points(BaseDb, 1, "G", Pt(150), 60, "m1", 0).d
        d2 == award_youtube_message_points(d1, 2, "G", Pt(200), 60, s2, 0).d
    IN  award_message_points(d2, 3, "G", Pt(5), 60, NoSource, 0).d

SeedDbs == {BaseDb, FundedDb, EarnedDb("m2"), EarnedDb("m1")}

InitWith(dbs) ==
    /\ db \in dbs
    /\ clock = 0
    /\ inflight = <<>>
    /\ nops = 0
    /\ last = Res("init", TRUE, "", "", "", NoUser, NoUser, 0)
    /\ disk = EmptyDisk /\ wall = 0 /\ taken = <<>>
    /\ mirror = IdleMirror /\ sup = IdleSup /\ stream = IdleStream /\ IdleServices

Init == InitWith({BaseDb, FundedDb})

\* every operation, on the accounts D1 and Y1 and the identities behind them
AwardStep ==
    \/ \E src \in SourceIds : StartAward("discord", "D1", "G", Pt(5), 60, src)
    \/ \E src \in SourceIds : StartAward("youtube", "Y1", "G", Pt(5), 60, src)
    \/ \E i \in 1..MaxInflight : CommitAward(i)

DeltaStep ==
    \/ \E u \in {1, 2}, dl \in {Pt(5), 0 - Pt(500)} : StartDelta(u, dl, "admin", "discord", NoSource)
    \/ \E i \in 1..MaxInflight : CommitDelta(i)

TransferStep ==
    \/ \E u \in {1, 2}, am \in {Pt(50), Pt(500)} : StartTransfer(u, 3 - u, am, "discord")
    \/ \E i \in 1..MaxInflight : CommitTransfer(i)

GambleStep ==
    \/ \E won \in BOOLEAN : StartGamble("Y1", Pt(5), won, "g1")
    \/ \E i \in 1..MaxInflight : CommitGamble(i)

PairLinkStep ==
    \/ CreateLinkCode("D1", "AAAA1111")
    \/ ConsumeLinkCode("AAAA1111", "Y1")
    \/ Unlink("discord", "D1")
    \/ Unlink("youtube", "Y1")
    \/ ForceLink("D1", 2)

\* one tick carries the clock past the lifetime of a code issued before it
Next ==
    \/ AwardStep \/ DeltaStep \/ TransferStep \/ GambleStep \/ PairLinkStep
    \/ Tick({TokenTtlSeconds + 1}, MaxLinkClock)

Spec == Init /\ [][Next]_vars

LinkStep ==
    \/ \E x \in DiscordIds, c \in Codes : CreateLinkCode(x, c)
    \/ \E c \in Codes \cup {"ZZZZ0000"}, y \in YoutubeIds : ConsumeLinkCode(c, y)
    \/ \E x \in DiscordIds : Unlink("discord", x)
    \/ \E y \in YoutubeIds : Unlink("youtube", y)
    \/ \E x \in DiscordIds, u \in UserIds : ForceLink(x, u)

\* the link registry alone, from stores that earlier economy operations left behind
NextLink == LinkStep \/ Tick({TokenTtlSeconds + 1}, MaxLinkClock)

SpecLink == InitWith(SeedDbs) /\ [][NextLink]_vars

\* message awards of D1 and Y1 in one scope, 30 or 35 seconds apart, around a forced link
CooldownStep ==
    \/ \E iv \in Intervals, src \in SourceIds : StartAward("discord", "D1", "G", Pt(5), iv, src)
    \/ \E iv \in Intervals : StartAward("youtube", "Y1", "G", Pt(5), iv, NoSource)
    \/ \E i \in 1..MaxInflight : CommitAward(i)
    \/ ForceLink("D1", 2)

NextCooldown == CooldownStep \/ Tick({30, 35}, MaxClock)

SpecCooldown == InitWith({BaseDb}) /\ [][NextCooldown]_vars

-----------------------------------------------------------------------------
(* Properties *)

RECURSIVE SumOfUsers(_, _)
\* the platform wallets of the identities T, added up
SumOfUsers(d, T) ==
    IF T = {} THEN 0
    ELSE LET u == CHOOSE x \in T : TRUE
         IN  SumPlatformWallets(d, u) + SumOfUsers(d, T \ {u})

\* some profile row is owned by u, or some ledger, event, inventory, cooldown or
\* platform-wallet row carries u
RefersTo(d, u) ==
    \/ DiscordProfilesOf(d, u) # {} \/ YoutubeProfilesOf(d, u) # {}
    \/ \E i \in 1..Len(d.ledger) : d.ledger[i].user = u
    \/ \E e \in d.events : e.user = u
    \/ \E k \in DOMAIN d.inv : k[1] = u
    \/ \E k \in DOMAIN d.cooldown : k[1] = u
    \/ \E k \in DOMAIN d.pw : k[1] = u

\* the step finished the transaction of the in-flight operation i
Commits(i) == i \in 1..Len(inflight) /\ inflight' = RemoveAt(inflight, i)

\* what a fresh read at the moment of the transaction gives for the in-flight operation o:
\* the identities it resolved, and for a gamble the balance that covers the bet
FreshReads(d, o) ==
    CASE o.op = "award" ->
             o.uid = resolve_active_user_id(d, AwardProfile(d, o.platform, o.ext))
      [] o.op = "delta" -> o.uid = resolve_active_user_id(d, o.args[1])
      [] o.op = "transfer" -> /\ o.uid = resolve_active_user_id(d, o.args[1])
                              /\ o.uid2 = resolve_active_user_id(d, o.args[2])
      [] o.op = "gamble" ->
             /\ o.uid = find_user_by_youtube_channel_id(d, o.ext)
             /\ validate_gamble(_get_current_balance(d, o.uid),
                                IF o.amount < 0 THEN 0 - o.amount ELSE o.amount)

\* C1: for every identity the total Wallet balance equals the sum of its
\* PlatformWallet balances, after every committed balance-changing operation,
\* the YouTube gamble payout included.
C1_WalletIsSumOfPlatformWallets ==
    \A u \in db.users : WalletBalance(db, u) = SumPlatformWallets(db, u)

\* C2: a link or unlink operation (merge, split, forced link) leaves the sum of the
\* PlatformWallet balances of the identities it touches as it was, from any
\* reachable state.
C2_LinkOpsConserveMoney ==
    [][last'.op \in {"consume", "unlink", "force_link"}
          => SumOfUsers(db', {last'.a, last'.b} \ {NoUser})
                 = SumOfUsers(db, {last'.a, last'.b} \ {NoUser})]_vars

\* C3: credits and debits never interleave: every transaction works on what its
\* reads (identity resolution, balance check) give against the state the previous
\* transaction left, as in a serial execution.
C3_ReadsAgainstPreviousState ==
    [][\A i \in 1..Len(inflight) : Commits(i) => FreshReads(db, inflight[i])]_vars

\* the message-earning ledger rows of one (platform, source_id)
EarningRows(d, platform, source) ==
    {k \in 1..Len(d.ledger) : /\ d.ledger[k].reason = "message_earning"
                               /\ d.ledger[k].platform = platform
                               /\ d.ledger[k].source = source}

OneCreditPerSource(d) ==
    \A platform \in SUPPORTED_PLATFORMS, source \in SourceIds \ {NoSource} :
        /\ Cardinality({e \in d.events : e.platform = platform /\ e.source = source}) <= 1
        /\ Cardinality(EarningRows(d, platform, source))
               = (IF HasEarningEvent(d, platform, source) THEN 1 ELSE 0)

\* what the award o did to the store d, leaving e and returning res
CreditOrNothing(d, e, o, res) ==
    /\ (o.source # NoSource /\ HasEarningEvent(d, o.platform, o.source))
           => (~res.ok /\ res.amount = 0)
    /\ ~res.ok => e = d
    /\ res.ok => /\ Len(e.ledger) = Len(d.ledger) + 1
                  /\ Bal(e, o.uid, o.platform) = Bal(d, o.uid, o.platform) + o.amount
                  /\ o.source # NoSource => HasEarningEvent(e, o.platform, o.source)

\* C4: of the awards that carry the same source_id on the same platform, called one
\* after another or concurrently, before or after a merge, only the first credited one
\* produces an EarningEvent row and a ledger row and changes a balance; every later
\* one awards 0 and changes nothing.
C4_DuplicateSourceCreditsOnce ==
    [][/\ OneCreditPerSource(db')
       /\ \A i \in 1..Len(inflight) :
              (Commits(i) /\ inflight[i].op = "award")
                  => CreditOrNothing(db, db', inflight[i], last')]_vars

\* a duplicate was refused for the identity that a merge made the active one
C4_Witness ==
    /\ last.op = "award" /\ last.err = "duplicate"
    /\ \E u \in DOMAIN db.links : db.links[u].active /\ db.links[u].primary = last.a
    /\ \E e \in db.events : e.source = last.code /\ e.user = last.a

\* a credited message award of (user, scope) lies less than the interval before o
RecentCredit(d, o) ==
    \E k \in 1..Len(d.ledger) :
        /\ d.ledger[k].user = o.uid
        /\ d.ledger[k].reason = "message_earning"
        /\ d.ledger[k].guild = o.scope
        /\ o.now - d.ledger[k].at < o.interval

CooldownDecision(d, e, o, res) ==
    /\ res.ok => ~RecentCredit(d, o)
    /\ (/\ ~RecentCredit(d, o)
        /\ ~(o.source # NoSource /\ HasEarningEvent(d, o.platform, o.source))
        /\ ~LedgerConflict(d, o.uid, o.source)) => res.ok
    /\ ~res.ok => e.cooldown = d.cooldown /\ e.ledger = d.ledger /\ e.pw = d.pw
    /\ res.ok => /\ e.cooldown[<<o.uid, o.scope>>] = o.now
                  /\ Len(e.ledger) = Len(d.ledger) + 1
                  /\ SumPlatformWallets(e, o.uid) = SumPlatformWallets(d, o.uid) + o.amount

C6_TokenConsumedAtMostOnce ==
    [][/\ \A c \in DOMAIN db.tokens :
              /\ c \in DOMAIN db'.tokens
              /\ db'.tokens[c].status # db.tokens[c].status
                     => /\ db.tokens[c].status = "active"
                        /\ db'.tokens[c].status \in {"consumed", "replaced", "expired"}
              /\ (db'.tokens[c].status = "consumed" /\ db.tokens[c].status # "consumed")
                     => /\ clock <= db.tokens[c].expires_at
                        /\ last'.op = "consume" /\ last'.ok /\ last'.code = c
              /\ (last'.op = "consume" /\ last'.code = c /\ db.tokens[c].status # "active")
                     => (~last'.ok /\ db' = db)
              /\ (last'.op = "consume" /\ last'.code = c /\ clock > db.tokens[c].expires_at)
                     => ~last'.ok
       /\ \A c \in (DOMAIN db'.tokens) \ (DOMAIN db.tokens) : db'.tokens[c].status = "active"]_vars

\* a second consume of a consumed code was refused
C6_Witness ==
    /\ last.op = "consume" /\ ~last.ok
    /\ last.code \in DOMAIN db.tokens
    /\ db.tokens[last.code].status = "consumed"

\* the tables a failed operation must leave as they were
Visible(d) ==
    <<d.users, d.dprof, d.yprof, d.pw, d.wallets, d.ledger, d.events, d.inv, d.cooldown,
      d.links, d.linked>>

\* C7: a consume, unlink, forced link, balance delta or transfer that fails (invalid or
\* expired code, not linked, insufficient funds, storage error) rolls back completely:
\* no profile, wallet, ledger, inventory, cooldown, IdLinkMap or LinkedAccountAudit
\* change is visible afterwards.
C7_FailedOpsLeaveNoTrace ==
    [][(last'.op \in {"consume", "unlink", "force_link", "delta", "transfer"} /\ ~last'.ok)
          => Visible(db') = Visible(db)]_vars

\* a forced link failed in the middle of its merge, on the ledger's unique index
C7_Witness ==
    /\ last.op = "force_link" /\ ~last.ok /\ last.err = "storage"
    /\ Len(db.ledger) >= 2

\* C8: after any merge the inactive identity owns no profile row, and no ledger, event,
\* inventory, cooldown or platform-wallet row refers to it.
C8_InactiveIdentityHoldsNothing ==
    [][(last'.op \in {"consume", "force_link"} /\ last'.ok /\ last'.a # last'.b)
          => ~RefersTo(db', last'.b)]_vars

\* what a successful consume of code by the channel yt left: t the token's owner,
\* s the identity the channel belonged to
ConsumeOutcome(d, e, code, yt, t, s) ==
    /\ t = d.tokens[code].owner
    /\ e.yprof[yt] = t
    /\ s # t => /\ \A p \in SUPPORTED_PLATFORMS : Bal(e, t, p) = Bal(d, s, p) + Bal(d, t, p)
                 /\ SumPlatformWallets(e, s) = 0 /\ WalletBalance(e, s) = 0
                 /\ WalletBalance(e, t) = SumPlatformWallets(d, s) + SumPlatformWallets(d, t)
                 /\ s \in DOMAIN e.links /\ e.links[s].active /\ e.links[s].primary = t
                 /\ resolve_active_user_id(e, s) = t
    /\ s = t => e.pw = d.pw

\* C9: after a successful consume_link_code the YouTube profile is owned by the token's
\* Discord owner, each destination PlatformWallet is the sum of the source's and the
\* destination's balances before, the source's total is zero, and the source maps to
\* the destination by an active IdLinkMap row.  A {discord: 150} and B {youtube: 200}
\* become A {discord: 150, youtube: 200} with Wallet(A) = 350, and B resolves to A.
C9_ConsumeMergesIntoOwner ==
    [][(last'.op = "consume" /\ last'.ok)
          => ConsumeOutcome(db, db', last'.code, last'.ext, last'.a, last'.b)]_vars

\* the example: identity 1 (D1) consumed its code for Y1, which identity 2 owned
C9_Witness ==
    /\ last.op = "consume" /\ last.ok /\ last.a = 1 /\ last.b = 2
    /\ Bal(db, 1, "discord") = Pt(150) /\ Bal(db, 1, "youtube") = Pt(200)
    /\ WalletBalance(db, 1) = Pt(350)
    /\ resolve_active_user_id(db, 2) = 1
    /\ db.yprof["Y1"] = 1

\* what a successful split left: a the identity that keeps the platform keep,
\* b the identity that receives the other profile
SplitOutcome(d, e, keep, a, b) ==
    /\ Bal(e, a, keep) = Bal(d, a, "discord") + Bal(d, a, "youtube")
    /\ Bal(e, a, IF keep = "discord" THEN "youtube" ELSE "discord") = 0
    /\ Bal(e, b, "discord") = 0 /\ Bal(e, b, "youtube") = 0
    /\ SumOfUsers(e, {a, b}) = SumOfUsers(d, {a, b})

\* C10: when a merged identity is split, the kept platform wallet holds the sum of both
\* platform balances, the other platform wallet of the active identity is 0, the
\* receiving identity (new or a reused inactive one) holds 0 on every platform, and no
\* money is created or destroyed.  {discord: 150, youtube: 200} unlinked with
\* keep = discord becomes {discord: 350, youtube: 0}.
C10_SplitKeepsTheMoney ==
    [][(last'.op = "unlink" /\ last'.ok)
          => SplitOutcome(db, db', last'.code, last'.a, last'.b)]_vars

\* C11: in every state the link operations can reach, the id resolve_active_user_id
\* returns for any user id is not itself the inactive side of an active user_id_links row.
C11_ResolveReturnsActiveId ==
    \A u \in UserIds :
        _resolve_active_user_id_in_conn(db, resolve_active_user_id(db, u)) = NoUser

-----------------------------------------------------------------------------
(* The economy alone: debits, transfers, zero amounts and mine rewards, on a store *)
(* in which a consumed link code has merged the YouTube identity into the Discord *)
(* one.                                                                           *)

\* identity 1 (D1 and Y1 after the merge of 2) holds discord 30 and youtube 40,
\* identity 3 (D2) holds nothing
LinkedDb ==
    LET d1 == apply_balance_delta(BaseDb, 1, Pt(30), "admin_add_points", "discord", NoSource, 0).d
        d2 == apply_balance_delta(d1, 2, Pt(40), "admin_add_points", "youtube", NoSource, 0).d
        d3 == create_discord_link_code(d2, "D1", "AAAA1111", 0).d
    IN  consume_youtube_link_code(d3, "AAAA1111", "Y1", 0).d

\* a debit or a transfer that the balance covers (50) or does not cover (100)
DebitAmounts == {Pt(50), Pt(100)}

\* MineView.mine_button: the reward of the mined item is credited with a source id
MineReward(discord, reward, source) ==
    StartDelta(get_or_create_discord_user(db, discord).dprof[discord], reward,
               "mine_reward", "discord", source)

DebitStep ==
    \/ \E am \in DebitAmounts, p \in SUPPORTED_PLATFORMS : StartDelta(2, 0 - am, "tax", p, NoSource)
    \/ \E am \in DebitAmounts, p \in SUPPORTED_PLATFORMS : StartTransfer(2, 3, am, p)
    \/ \E i \in 1..MaxInflight : CommitDelta(i) \/ CommitTransfer(i)

\* amounts that are zero after rounding or negative, a transfer between two ids of one
\* identity, and a transfer back
RejectStep ==
    \/ \E am \in {0, 4} : StartDelta(3, am, "admin", "discord", NoSource)
    \/ \E am \in {0, 4} : StartAward("discord", "D2", "G", am, 60, "m1")
    \/ \E am \in {0, 4, 0 - Pt(5)} : StartTransfer(1, 3, am, "discord")
    \/ StartTransfer(2, 1, Pt(50), "discord")
    \/ StartTransfer(3, 1, Pt(50), "youtube")

EarnStep ==
    \/ MineReward("D2", Pt(5), "m1")
    \/ StartAward("discord", "D2", "G", Pt(5), 60, "m1")
    \/ \E i \in 1..MaxInflight : CommitAward(i)

NextEconomy == DebitStep \/ RejectStep \/ EarnStep

SpecEconomy == InitWith({LinkedDb}) /\ [][NextEconomy]_vars

\* the platform a debit is taken from after the preferred one
OtherPlatform(p) == IF p = "discord" THEN "youtube" ELSE "discord"

\* a committed debit of x from identity u with preferred platform p: p is emptied before
\* the other platform is touched, and x is gone from the two together and from the total
DebitOutcome(d, e, u, p, x) ==
    LET first == Min(Bal(d, u, p), x)
    IN  /\ Bal(e, u, p) = Bal(d, u, p) - first
        /\ Bal(e, u, OtherPlatform(p)) = Bal(d, u, OtherPlatform(p)) - (x - first)
        /\ WalletBalance(e, u) = SumPlatformWallets(d, u) - x

\* what a committed negative delta or transfer o did to the store d, giving e
DebitOrder(d, e, o, res) ==
    res.ok =>
        CASE o.op = "delta" /\ o.amount < 0 -> DebitOutcome(d, e, o.uid, o.platform, 0 - o.amount)
          [] o.op = "transfer" ->
                 /\ DebitOutcome(d, e, o.uid, o.platform, o.amount)
                 /\ Bal(e, o.uid2, o.platform) = Bal(d, o.uid2, o.platform) + o.amount
                 /\ Bal(e, o.uid2, OtherPlatform(o.platform))
                        = Bal(d, o.uid2, OtherPlatform(o.platform))
          [] OTHER -> TRUE

\* C12: a negative delta, and the debit side of a transfer, of amount x is taken from the
\* platform wallets in the order [preferred_platform, discord, youtube], each emptied
\* before the next is touched, and removes exactly x; the recipient of a transfer gets x
\* on the transfer's platform.
C12_DebitFollowsPlatformOrder ==
    [][\A i \in 1..Len(inflight) :
          Commits(i) => DebitOrder(db, db', inflight[i], last')]_vars

\* from {discord 30, youtube 40} a transfer of 50 with platform discord has left the
\* sender at {discord 0, youtube 20}, total 20, and the recipient with discord 50
C12_Witness ==
    /\ last.op = "transfer" /\ last.ok /\ last.a = 1 /\ last.b = 3 /\ last.amount = Pt(50)
    /\ Bal(db, 1, "discord") = 0 /\ Bal(db, 1, "youtube") = Pt(20)
    /\ WalletBalance(db, 1) = Pt(20)
    /\ Bal(db, 3, "discord") = Pt(50) /\ Bal(db, 3, "youtube") = 0
    /\ Len(db.ledger) = 4

\* a committed negative delta or transfer o whose amount the combined balance of the
\* debited identity does not cover
Uncovered(d, o) ==
    /\ \/ o.op = "delta" /\ o.amount < 0
       \/ o.op = "transfer"
    /\ SumPlatformWallets(d, o.uid) < (IF o.amount < 0 THEN 0 - o.amount ELSE o.amount)

InsufficientFunds(d, e, res) ==
    /\ ~res.ok /\ res.err = "insufficient"
    /\ e.ledger = d.ledger /\ e.pw = d.pw /\ e.wallets = d.wallets

\* C13: apply_balance_delta with a negative delta, and transfer, fail with insufficient
\* funds whenever the amount exceeds the combined balance of the identity, and then no
\* ledger row is written and every balance of every identity stays as it was.
C13_InsufficientFundsChangeNothing ==
    [][\A i \in 1..Len(inflight) :
          Commits(i) /\ Uncovered(db, inflight[i]) => InsufficientFunds(db, db', last')]_vars

\* a transfer of 100 from {discord 30, youtube 40} has been refused
C13_Witness ==
    /\ last.op = "transfer" /\ ~last.ok /\ last.err = "insufficient" /\ last.a = 1
    /\ Bal(db, 1, "discord") = Pt(30) /\ Bal(db, 1, "youtube") = Pt(40)
    /\ WalletBalance(db, 1) = Pt(70)
    /\ Len(db.ledger) = 2

\* a transfer that reaches its transaction has a positive amount and two identities
TransferAdmitted(o) == o.op = "transfer" => o.amount > 0 /\ o.uid # o.uid2

\* the two ledger rows of a transfer of x from a to b: the outgoing row of the sender
\* (reason transfer_to_user_<b>) and the incoming row of the recipient
\* (reason transfer_from_user_<a>)
TransferRows(rows, a, b, x) ==
    /\ Len(rows) = 2
    /\ rows[1].user = a /\ rows[1].amount = 0 - x
    /\ rows[1].reason = "transfer_to_user" /\ rows[1].peer = b
    /\ rows[2].user = b /\ rows[2].amount = x
    /\ rows[2].reason = "transfer_from_user" /\ rows[2].peer = a

\* the transaction of the transfer o took the store from d to e
TransferOutcome(d, e, o, res) ==
    IF res.ok
    THEN /\ WalletBalance(e, o.uid) = SumPlatformWallets(d, o.uid) - o.amount
         /\ WalletBalance(e, o.uid2) = SumPlatformWallets(d, o.uid2) + o.amount
         /\ SumPlatformWallets(e, o.uid) + SumPlatformWallets(e, o.uid2)
                = SumPlatformWallets(d, o.uid) + SumPlatformWallets(d, o.uid2)
         /\ Len(e.ledger) = Len(d.ledger) + 2
         /\ SubSeq(e.ledger, 1, Len(d.ledger)) = d.ledger
         /\ TransferRows(SubSeq(e.ledger, Len(d.ledger) + 1, Len(e.ledger)), o.uid, o.uid2, o.amount)
    ELSE e = d

\* C14: transfer rejects a self-transfer (both ids resolving to one identity) and a
\* non-positive amount without changing the store; a successful transfer debits the
\* sender and credits the recipient by the same amount in one transaction, so that the
\* sum of the two totals is unchanged, and appends exactly two ledger rows, the outgoing
\* row of the sender and the incoming row of the recipient.
C14_TransferIsAtomicPair ==
    [][/\ \A i \in 1..Len(inflight') : TransferAdmitted(inflight'[i])
       /\ last'.op = "transfer" /\ last'.err \in {"self", "amount"} => ~last'.ok /\ db' = db
       /\ \A i \in 1..Len(inflight) :
              Commits(i) /\ inflight[i].op = "transfer"
                  => TransferOutcome(db, db', inflight[i], last')]_vars

\* a transfer of 50 on youtube has been committed, and after it a transfer between
\* the two ids of identity 1 has been refused
C14_Witness ==
    /\ last.op = "transfer" /\ ~last.ok /\ last.err = "self" /\ last.a = 1 /\ last.b = 1
    /\ Len(db.ledger) = 4
    /\ TransferRows(SubSeq(db.ledger, 3, 4), 1, 3, Pt(50))
    /\ Bal(db, 3, "youtube") = Pt(50) /\ Bal(db, 1, "youtube") = 0
    /\ Bal(db, 1, "discord") = Pt(20)

\* the earning_events rows of the (platform, source_id) of the ledger row r
MatchingEvents(d, r) ==
    {e \in d.events : e.platform = r.platform /\ e.source = r.source}

\* C15: after any sequence of economy operations (awards, apply_balance_delta from mine
\* rewards, admin commands, games and taxes, transfers) every ledger row with a positive
\* amount and a source_id has exactly one matching earning_events row.
C15_PositiveLedgerRowHasEvent ==
    \A i \in 1..Len(db.ledger) :
        db.ledger[i].amount > 0 /\ db.ledger[i].source # NoSource
            => Cardinality(MatchingEvents(db, db.ledger[i])) = 1

\* the codes of the Discord id x that are in status active
ActiveCodes(d, x) ==
    {c \in DOMAIN d.tokens : d.tokens[c].discord = x /\ d.tokens[c].status = "active"}

\* the step d -> e issued code c for the Discord id x
IssueOutcome(d, e, x, c) ==
    /\ ActiveCodes(e, x) = {c}
    /\ \A c2 \in ActiveCodes(d, x) : e.tokens[c2].status = "replaced"

\* code c, consumed in store d, was the code most recently issued to its Discord id
MostRecentCode(d, c) ==
    /\ ActiveCodes(d, d.tokens[c].discord) = {c}
    /\ \A c2 \in DOMAIN d.tokens :
           d.tokens[c2].discord = d.tokens[c].discord
               => d.tokens[c2].created_at <= d.tokens[c].created_at

\* C16: after any sequence of create_link_code calls each Discord id has at most one
\* link token in status active: issuing a code moves every earlier active code of that
\* Discord id to replaced, so only the most recently issued code can be consumed.
C16_OneActiveCodePerDiscordId ==
    [][/\ \A x \in DiscordIds : Cardinality(ActiveCodes(db', x)) <= 1
       /\ last'.op = "create" /\ last'.ok /\ nops' = nops + 1
              => IssueOutcome(db, db', last'.ext, last'.code)
       /\ last'.op = "consume" /\ last'.ok /\ nops' = nops + 1
              => MostRecentCode(db, last'.code)]_vars

\* a second code has been issued to D1 and the first one is replaced
C16_Witness ==
    /\ last.op = "create" /\ last.ok /\ last.ext = "D1" /\ last.code = "BBBB2222"
    /\ DOMAIN db.tokens = {"AAAA1111", "BBBB2222"}
    /\ db.tokens["AAAA1111"].discord = "D1" /\ db.tokens["AAAA1111"].status = "replaced"
    /\ db.tokens["BBBB2222"].discord = "D1" /\ db.tokens["BBBB2222"].status = "active"

\* the step was a call of an economy credit path that ended before any transaction
DecidedAtCall ==
    /\ nops' = nops + 1 /\ inflight' = inflight
    /\ last'.op \in {"award", "delta", "transfer"}

\* C17: every economy credit path rejects an amount that is 0 after the 2-decimal
\* rounding: award_message_points, award_youtube_message_points, apply_balance_delta and
\* transfer_points each report a rejection and change neither balances nor the ledger;
\* no call with a zero amount reaches a transaction.
C17_ZeroAmountRejected ==
    [][/\ \A i \in 1..Len(inflight') :
              inflight'[i].op \in {"award", "delta", "transfer"} => inflight'[i].amount # 0
       /\ DecidedAtCall
              => /\ ~last'.ok
                 /\ db'.pw = db.pw /\ db'.wallets = db.wallets /\ db'.ledger = db.ledger]_vars

-----------------------------------------------------------------------------
(* Backup actions *)

BackupRes(op, ok) == Res(op, ok, "", "", "", NoUser, NoUser, 0)

\* run_due_autosave_if_needed when the autosave is due: create_autosave runs to its end;
\* the copy and the mirror take time, so created_at is later than the snapshot's name
ScheduledAutosave(limit) ==
    /\ nops < limit
    /\ AutosaveDue(disk, wall, MIN_INTERVAL_SECONDS)
    /\ disk' = create_autosave(disk, wall, wall + 1)
    /\ wall' = wall + 1
    /\ taken' = Append(taken, wall + 1)
    /\ nops' = nops + 1
    /\ last' = BackupRes("autosave", TRUE)
    /\ UNCHANGED <<ovars, db, clock, inflight>>

\* the scheduler loop finds the autosave not due until interval_seconds have passed
WaitInterval ==
    /\ ~AutosaveDue(disk, wall, MIN_INTERVAL_SECONDS)
    /\ wall' = disk.last_run_at[1] + MIN_INTERVAL_SECONDS * TicksPerSecond
    /\ last' = BackupRes("wait", TRUE)
    /\ UNCHANGED <<ovars, db, clock, inflight, nops, disk, taken>>

\* the day on which the snapshots of this run begin: the day after the last snapshot
\* the store started with
RunStartDay == IF Len(taken) = nops THEN 0 ELSE DayKey(taken[Len(taken) - nops]) + 1

\* the bot is not running until the next calendar day begins
NextDay(days) ==
    /\ ~AutosaveDue(disk, wall, MIN_INTERVAL_SECONDS)
    /\ DayKey(wall) + 1 < RunStartDay + days
    /\ wall' = (DayKey(wall) + 1) * TicksPerDay
    /\ last' = BackupRes("wait", TRUE)
    /\ UNCHANGED <<ovars, db, clock, inflight, nops, disk, taken>>

\* create_autosave (console command or scheduler) up to _create_snapshot_file
StartAutosave ==
    /\ nops < MaxOps /\ nops' = nops + 1
    /\ Len(inflight) < MaxInflight
    /\ disk' = _create_snapshot_file(disk, wall)
    /\ inflight' = Append(inflight, [op |-> "autosave", file |-> _ts_for_file(wall)])
    /\ wall' = wall + 1
    /\ last' = BackupRes("snapshot", TRUE)
    /\ UNCHANGED <<ovars, db, clock, taken>>

\* create_autosave from _load_manifest to its end; writing takes time, so no two
\* items carry the same created_at
FinishAutosave(i) ==
    /\ i \in 1..Len(inflight)
    /\ inflight[i].op = "autosave"
    /\ disk' = RecordAutosave(disk, inflight[i].file, wall)
    /\ taken' = Append(taken, wall)
    /\ wall' = wall + 1
    /\ inflight' = RemoveAt(inflight, i)
    /\ last' = BackupRes("autosave", TRUE)
    /\ UNCHANGED <<ovars, db, clock, nops>>

\* the process stops between the snapshot and the manifest
AbandonAutosave(i) ==
    /\ i \in 1..Len(inflight)
    /\ inflight[i].op = "autosave"
    /\ inflight' = RemoveAt(inflight, i)
    /\ last' = BackupRes("stopped", FALSE)
    /\ UNCHANGED <<ovars, db, clock, nops, disk, wall, taken>>

\* console command backup autosave delete <i>
DeleteBackup(index_1_based) ==
    /\ nops < MaxOps /\ nops' = nops + 1
    /\ disk' = delete_backup_by_index(disk, index_1_based).dk
    /\ last' = BackupRes("delete", delete_backup_by_index(disk, index_1_based).ok)
    /\ UNCHANGED <<ovars, db, clock, inflight, wall, taken>>

\* time passes between two operations: half a second or a second
Pause ==
    /\ last.op # "pause"
    /\ \E s \in {1, TicksPerSecond} : wall' = wall + s
    /\ last' = BackupRes("pause", TRUE)
    /\ UNCHANGED <<ovars, db, clock, inflight, nops, disk, taken>>

-----------------------------------------------------------------------------
(* Backup specifications *)

\* snapshots of one run of the scheduler, and the calendar days they are spread over
MaxSnapshots == 20
MaxDays == 4

\* the days of the snapshots a store starts with
SeedDays == 10

\* the backup directory after n scheduled autosaves, one every step half seconds
RECURSIVE AutosavesEvery(_, _)
AutosavesEvery(step, n) ==
    IF n = 0 THEN EmptyDisk
    ELSE create_autosave(AutosavesEvery(step, n - 1), (n - 1) * step, (n - 1) * step + 1)

\* the directory, the time and the history after those n autosaves; the next one is due
Seed(step, n) ==
    [disk |-> AutosavesEvery(step, n), wall |-> n * step,
     taken |-> [i \in 1..n |-> (i - 1) * step + 1]]

\* one snapshot a day for SeedDays days
DailySeed == Seed(TicksPerDay, SeedDays)

\* one snapshot more than the recent ones, an interval apart, on one day
BusySeed == Seed(MIN_INTERVAL_SECONDS * TicksPerSecond, RECENT_KEEP + 1)

InitBackup(seeds) ==
    /\ db = EmptyDb /\ clock = 0 /\ inflight = <<>> /\ nops = 0
    /\ last = Res("init", TRUE, "", "", "", NoUser, NoUser, 0)
    /\ \E s \in seeds : disk = s.disk /\ wall = s.wall /\ taken = s.taken
    /\ mirror = IdleMirror /\ sup = IdleSup /\ stream = IdleStream /\ IdleServices

\* the scheduler alone: autosaves every interval, over a few calendar days
NextRetention == ScheduledAutosave(MaxSnapshots) \/ WaitInterval \/ NextDay(MaxDays)

SpecRetention == InitBackup({Seed(1, 0), DailySeed}) /\ [][NextRetention]_vars

\* console commands and the scheduler, at any time
NextBackup ==
    \/ StartAutosave
    \/ \E i \in 1..MaxInflight : FinishAutosave(i) \/ AbandonAutosave(i)
    \/ \E x \in 1..2 : DeleteBackup(x)
    \/ Pause

SpecBackup == InitBackup({Seed(1, 0), BusySeed}) /\ [][NextBackup]_vars

-----------------------------------------------------------------------------
(* Properties of the backup directory *)

Items(backups) == {backups[i] : i \in 1..Len(backups)}

NewerThan(e, S) == {x \in S : x.created_at > e.created_at}

\* the 5 most recent snapshots of S
MostRecent(S) == {e \in S : Cardinality(NewerThan(e, S)) < 5}

\* of the snapshots of S outside T, the newest of every calendar day
NewestOfDayOutside(S, T) ==
    {e \in S \ T : \A x \in S \ T :
         DayKey(x.created_at) = DayKey(e.created_at) => x.created_at <= e.created_at}

\* of the day snapshots D, those of the 10 most recent days
TenDays(D) == {e \in D : Cardinality(NewerThan(e, D)) < 10}

\* what retention leaves of the snapshots S
RetentionKeeps(S) == MostRecent(S) \cup TenDays(NewestOfDayOutside(S, MostRecent(S)))

\* the manifest an autosave wrote, given the snapshots S it found and added: tiers,
\* sizes, order, and the files of everything else gone
SweepOutcome(S, backups, files) ==
    /\ Items(backups) = RetentionKeeps(S)
    /\ Len(backups) = Cardinality(Items(backups))
    /\ Len(backups) <= 5 + 10
    /\ Cardinality(Items(backups) \ MostRecent(S)) <= 10
    /\ \A i \in 1..(Len(backups) - 1) : backups[i].created_at > backups[i + 1].created_at
    /\ \A e \in S \ Items(backups) : e.file_path \notin files

\* the item of the autosave that finished at created_at
ItemAt(backups, created_at) == {e \in Items(backups) : e.created_at = created_at}

\* C18: after any sequence of N autosave snapshots the manifest holds at most the 5
\* most recent snapshots plus at most 10 older ones, the older ones being, for each of
\* up to 10 distinct calendar days, the newest of that day's snapshots outside the 5 most
\* recent; every other snapshot has been deleted, file and manifest entry.
C18_RetentionTiers ==
    [][last'.op = "autosave" /\ Len(taken') = Len(taken) + 1
          => SweepOutcome(Items(disk.manifest)
                              \cup ItemAt(disk'.manifest, taken'[Len(taken')]),
                          disk'.manifest, disk'.files)]_vars

\* 10 older days and 5 recent snapshots are held, and the snapshot of the first day
\* has been deleted for the 11th older day
C18_Witness ==
    /\ last.op = "autosave"
    /\ Len(taken) > 5 + 10
    /\ Len(disk.manifest) = 5 + 10
    /\ Cardinality({DayKey(e.created_at) : e \in Items(disk.manifest) \ MostRecent(Items(disk.manifest))}) = 10
    /\ \A e \in Items(disk.manifest) : e.created_at # taken[1]
    /\ Cardinality(disk.files) = 5 + 10

\* the manifest entries that point to the snapshot file f
EntriesOf(dk, f) == {i \in 1..Len(dk.manifest) : dk.manifest[i].file_path = f}

\* C19: after any sequence of autosaves, manual deletes and retention sweeps (two
\* snapshots within one second and an autosave that stops part-way included), once no
\* autosave is under way, every manifest entry points to an existing snapshot file and
\* every snapshot file is referenced by exactly one manifest entry.
C19_FilesMatchManifest ==
    inflight = <<>> =>
        /\ \A i \in 1..Len(disk.manifest) : disk.manifest[i].file_path \in disk.files
        /\ \A f \in disk.files : Cardinality(EntriesOf(disk, f)) = 1

\* the calendar days of the autosaves taken so far
DaysTaken == {DayKey(taken[i]) : i \in 1..Len(taken)}

\* 20 autosaves from an empty directory, spread over 4 calendar days, the last 6 of
\* them on the fourth day
TwentyOverFourDays ==
    /\ nops = 20 /\ Len(taken) = 20
    /\ Cardinality(DaysTaken) = 4
    /\ \A i \in 15..20 : DayKey(taken[i]) = DayKey(taken[20])

\* of the autosaves taken, the last one of every day before the day of the 20th
LastOfEarlierDays ==
    {taken[i] : i \in {j \in 1..14 :
         /\ DayKey(taken[j]) # DayKey(taken[20])
         /\ \A k \in (j + 1)..14 : DayKey(taken[k]) # DayKey(taken[j])}}

CreatedAt(backups) == {backups[i].created_at : i \in 1..Len(backups)}

\* C20 as stated: starting from an empty manifest, 20 snapshots spread across 4 calendar
\* days with the last 6 on day 4 leave exactly 8 snapshots, the 5 most recent plus one
\* per earlier day; the manifest has length 8 and 8 files exist.
C20_TwentySnapshotsLeaveEight ==
    TwentyOverFourDays =>
        /\ Len(disk.manifest) = 8
        /\ CreatedAt(disk.manifest) = {taken[i] : i \in 16..20} \cup LastOfEarlierDays
        /\ Cardinality(disk.files) = 8

\* C20: starting from an empty manifest, 20 snapshots spread across 4 calendar days with
\* the last 6 on day 4 leave exactly 9 snapshots: the 5 most recent, the sixth most recent
\* as the newest of day 4 outside those 5, and one per earlier day; the manifest has
\* length 9, 9 files exist and every manifest entry points to an existing file.
C20_TwentySnapshotsLeaveNine ==
    TwentyOverFourDays =>
        /\ Len(disk.manifest) = 9
        /\ CreatedAt(disk.manifest) = {taken[i] : i \in 15..20} \cup LastOfEarlierDays
        /\ Cardinality(disk.files) = 9
        /\ \A i \in 1..Len(disk.manifest) : disk.manifest[i].file_path \in disk.files

\* the 20th autosave has finished, exactly 6 of the 20 on day 4, and 9 snapshots are held
C20_Witness ==
    /\ TwentyOverFourDays
    /\ last.op = "autosave"
    /\ DayKey(taken[14]) # DayKey(taken[20])
    /\ Len(disk.manifest) = 9
    /\ Cardinality(disk.files) = 9

-----------------------------------------------------------------------------
(* The backup service: scheduler ticks, the remote store and recovery *)

\* steps of one run of the backup service, and versions of the local database
MaxTicks == 5
MaxVersion == 2

\* BACKUP_POLL_SECONDS, at its minimum and at its default
PollSeconds == {10, 60}

\* interval_seconds as the configuration file may hold it
RawIntervals == {10, MIN_INTERVAL_SECONDS, 45}

MirrorRes(op, ok, c, s, code, n) == Res(op, ok, s, c, code, NoUser, NoUser, n)

\* what one iteration of run_backup_service reports: the autosave ran or was skipped
TickRes(r, c, s) ==
    IF r.ran THEN MirrorRes("tick", ~r.raised, c, s, "ran", 0)
    ELSE MirrorRes("tick", TRUE, "", "", "skipped", 0)

\* run_backup_service, one iteration of the loop: run_due_autosave_if_needed, then
\* time.sleep(poll_seconds); nothing in the loop or under it catches an exception
TickOutcome(r, c, s) ==
    /\ disk' = r.dk
    /\ mirror' = [r.m EXCEPT !.worker = IF r.raised THEN "dead" ELSE @]
    /\ wall' = wall + (IF r.ran THEN 1 ELSE 0) + mirror.poll * TicksPerSecond
    /\ taken' = IF r.ran /\ ~r.raised THEN Append(taken, wall + 1) ELSE taken
    /\ last' = TickRes(r, c, s)

WorkerTick(c, s) ==
    /\ mirror.worker = "running"
    /\ nops < MaxTicks /\ nops' = nops + 1
    /\ TickOutcome(run_due_autosave_if_needed(disk, mirror, wall, wall + 1, c, s), c, s)
    /\ UNCHANGED <<db, clock, inflight, sup, stream, nvars>>

\* console command backup on: the backup_core process is spawned again
StartWorker ==
    /\ mirror.worker # "running"
    /\ nops < MaxTicks /\ nops' = nops + 1
    /\ mirror' = [mirror EXCEPT !.worker = "running"]
    /\ wall' = wall + 1
    /\ last' = MirrorRes("backup_on", TRUE, "", "", "", 0)
    /\ UNCHANGED <<db, clock, inflight, disk, taken, sup, stream, nvars>>

\* console command backup autosave interval <seconds>: below 30 it is refused
SetInterval(interval) ==
    /\ ~mirror.cfg.enabled
    /\ nops < MaxTicks /\ nops' = nops + 1
    /\ mirror' = IF interval < 30 THEN mirror
                 ELSE [mirror EXCEPT !.cfg = [enabled |-> TRUE,
                                              interval_seconds |-> Max(30, interval)]]
    /\ last' = MirrorRes("interval", interval >= 30, "", "", "", interval)
    /\ UNCHANGED <<db, clock, inflight, bvars, sup, stream, nvars>>

\* the bot's workers write to the local database
LocalWrite ==
    /\ mirror.local < MaxVersion
    /\ nops < MaxTicks /\ nops' = nops + 1
    /\ mirror' = [mirror EXCEPT !.local = @ + 1]
    /\ last' = MirrorRes("write", TRUE, "", "", "", 0)
    /\ UNCHANGED <<db, clock, inflight, bvars, sup, stream, nvars>>

\* console command backup autosave recovery <index>
RecoverOutcome(r, s, index) ==
    /\ mirror' = r.m
    /\ last' = MirrorRes("recovery", r.ok, "", s, IF r.raised THEN "raised" ELSE "", index)

RecoverBackup(index, s) ==
    /\ nops < MaxTicks /\ nops' = nops + 1
    /\ RecoverOutcome(recover_backup_by_index(disk, mirror, index, wall, s), s, index)
    /\ wall' = wall + 1
    /\ UNCHANGED <<db, clock, inflight, disk, taken, sup, stream, nvars>>

\* the backup directory, the mirror and the history after n autosaves an interval
\* apart that the remote store answered
RECURSIVE MirroredAutosaves(_)
MirroredAutosaves(n) ==
    IF n = 0 THEN [dk |-> EmptyDisk, m |-> IdleMirror]
    ELSE [x \in {"dk", "m"} |->
              create_autosave_remote(MirroredAutosaves(n - 1).dk, MirroredAutosaves(n - 1).m,
                                     (n - 1) * MIN_INTERVAL_SECONDS * TicksPerSecond,
                                     (n - 1) * MIN_INTERVAL_SECONDS * TicksPerSecond + 1,
                                     "ok", "ok")[x]]

MirrorSeed(n) ==
    [disk |-> MirroredAutosaves(n).dk, m |-> MirroredAutosaves(n).m,
     wall |-> n * MIN_INTERVAL_SECONDS * TicksPerSecond,
     taken |-> [i \in 1..n |-> (i - 1) * MIN_INTERVAL_SECONDS * TicksPerSecond + 1]]

\* the service starts on an empty directory or on one that holds more snapshots than
\* the recent ones; autosave.json is as the console or an editor left it
InitMirror ==
    /\ db = EmptyDb /\ clock = 0 /\ inflight = <<>> /\ nops = 0
    /\ last = Res("init", TRUE, "", "", "", NoUser, NoUser, 0)
    /\ sup = IdleSup /\ stream = IdleStream /\ IdleServices
    /\ \E n \in {0, RECENT_KEEP + 1}, e \in BOOLEAN, i \in RawIntervals, p \in PollSeconds :
          /\ disk = MirrorSeed(n).disk /\ wall = MirrorSeed(n).wall /\ taken = MirrorSeed(n).taken
          /\ mirror = [MirrorSeed(n).m EXCEPT !.cfg = [enabled |-> e, interval_seconds |-> i],
                                              !.poll = p, !.worker = "running"]

NextMirror ==
    \/ \E c \in RemoteOutcomes, s \in RemoteOutcomes : WorkerTick(c, s)
    \/ StartWorker
    \/ \E i \in RawIntervals : SetInterval(i)
    \/ LocalWrite
    \/ \E x \in 1..2, s \in RemoteOutcomes : RecoverBackup(x, s)

SpecMirror == InitMirror /\ [][NextMirror]_vars

-----------------------------------------------------------------------------
(* Properties of the backup service *)

\* a scheduler tick that ran an autosave during which the remote store failed
FailedMirror(l) == l.op = "tick" /\ l.code = "ran" /\ (l.ext # "ok" \/ l.err # "ok")

\* the manifest entries an autosave step added
NewEntries == Items(disk'.manifest) \ Items(disk.manifest)

\* C21: if the mirror step of an autosave fails (remote store unreachable, timing out,
\* or failing mid-copy), the autosave still records a manifest entry for the snapshot
\* with mirror_ok = false and an error message, and retention is still applied.
C21_FailedMirrorStillRecorded ==
    [][FailedMirror(last') =>
          \E e \in NewEntries :
              /\ ~e.mysql_sync_ok /\ e.mysql_sync_message # ""
              /\ e.file_path \in disk'.files
              /\ SweepOutcome(Items(disk.manifest) \cup {e}, disk'.manifest, disk'.files)]_vars

\* C22: a remote-store failure or timeout during a scheduled autosave is not fatal to
\* the backup worker: after the tick the scheduler loop is still running.
C22_RemoteFailureNotFatal ==
    [][FailedMirror(last') => mirror'.worker = "running"]_vars

\* interval_seconds as load_config returns it
IntervalInForce == Max(MIN_INTERVAL_SECONDS, mirror.cfg.interval_seconds)

\* (now - last_run) >= interval_seconds, or no run recorded yet
DueNow ==
    IF disk.last_run_at = <<>> THEN TRUE
    ELSE wall - disk.last_run_at[1] >= IntervalInForce * TicksPerSecond

\* the autosave this tick starts is at least interval_seconds after the one before
SpacedFromLast ==
    IF taken = <<>> THEN TRUE
    ELSE wall - taken[Len(taken)] >= IntervalInForce * TicksPerSecond

Selected(dk, index_1_based) == list_backups(dk)[index_1_based]

\* C24: after a successful recover(index) the local DB equals the selected snapshot, a
\* new snapshot of the restored DB has been taken and recorded, and the remote mirror,
\* tagged recovery_<timestamp>, equals the restored DB.
C24_RecoveryRestoresSnapshotsAndMirrors ==
    [][last'.op = "recovery" /\ last'.ok =>
          /\ mirror'.local = mirror.snap[Selected(disk, last'.amount).file_path]
          /\ mirror'.remote = mirror'.local
          /\ mirror'.tag[1] = "recovery"
          /\ \E e \in NewEntries :
                 e.file_path \in disk'.files /\ mirror'.snap[e.file_path] = mirror'.local]_vars

-----------------------------------------------------------------------------
(* The stream watcher *)

\* detections and commands of one session
MaxChecks == 4

StreamRes(op, response, r, found) ==
    [op |-> op, response |-> response, is_live |-> r.is_live, video_id |-> r.video_id,
     changed |-> r.changed, found |-> found]

\* one iteration of _start_autostream_loop with the API connected
AutostreamOutcome(r, response, found) ==
    /\ stream' = [r.st EXCEPT !.yapi = AutostreamListener(stream.yapi, r, found)]
    /\ last' = StreamRes("autostream", response, r, found)

AutostreamTick(response, found) ==
    /\ nops < MaxChecks /\ nops' = nops + 1
    /\ AutostreamOutcome(detect_stream(stream, response), response, found)
    /\ UNCHANGED <<db, clock, inflight, bvars, mirror, sup, nvars>>

\* one iteration in which yt.connect() fails: no detection, the loop sleeps
AutostreamNoApi ==
    /\ nops < MaxChecks /\ nops' = nops + 1
    /\ last' = [op |-> "noapi"]
    /\ UNCHANGED <<db, clock, inflight, bvars, mirror, sup, stream, nvars>>

\* console command yapi: shuts YAPI down if it is active, starts it otherwise
YapiCommand(found) ==
    /\ nops < MaxChecks /\ nops' = nops + 1
    /\ stream' = [stream EXCEPT !.yapi = IF @ THEN FALSE ELSE found]
    /\ last' = [op |-> "yapi"]
    /\ UNCHANGED <<db, clock, inflight, bvars, mirror, sup, nvars>>

\* the bot is started again: the listener is gone, StreamManager._load_state reads
\* active_stream.json
RestartBot ==
    /\ nops < MaxChecks /\ nops' = nops + 1
    /\ stream' = [stream EXCEPT !.yapi = FALSE]
    /\ last' = [op |-> "restart"]
    /\ UNCHANGED <<db, clock, inflight, bvars, mirror, sup, nvars>>

\* the first start of the bot, or a start on the state file of an earlier session
InitStream ==
    /\ db = EmptyDb /\ clock = 0 /\ inflight = <<>> /\ nops = 0
    /\ last = [op |-> "init"]
    /\ disk = EmptyDisk /\ wall = 0 /\ taken = <<>>
    /\ mirror = IdleMirror /\ sup = IdleSup /\ IdleServices
    /\ stream \in {IdleStream, [IdleStream EXCEPT !.is_live = TRUE, !.video_id = "V"]}

NextStream ==
    \/ \E response \in Responses, found \in BOOLEAN : AutostreamTick(response, found)
    \/ AutostreamNoApi
    \/ \E found \in BOOLEAN : YapiCommand(found)
    \/ RestartBot

SpecStream == InitStream /\ [][NextStream]_vars

\* C25: detect follows the transition table for every previous state and response:
\* not live + no items gives not live, changed = false; not live + an item gives live,
\* changed = true; live V + no items gives not live, changed = true; live V + item V
\* gives live, changed = false; live V + item W # V gives live, changed = true; a detect
\* call that fails or times out leaves is_live and video_id unchanged and reports
\* changed = false.
C25_DetectFollowsTable ==
    [][last'.op = "autostream" =>
          CASE last'.response = "error" ->
                   /\ stream'.is_live = stream.is_live /\ stream'.video_id = stream.video_id
                   /\ ~last'.changed
            [] last'.response = "" /\ ~stream.is_live ->
                   ~stream'.is_live /\ ~last'.changed
            [] last'.response = "" /\ stream.is_live ->
                   ~stream'.is_live /\ last'.changed
            [] last'.response \in VideoIds /\ ~stream.is_live ->
                   stream'.is_live /\ stream'.video_id = last'.response /\ last'.changed
            [] last'.response \in VideoIds /\ stream.is_live
                   /\ stream.video_id = last'.response ->
                   stream'.is_live /\ stream'.video_id = last'.response /\ ~last'.changed
            [] last'.response \in VideoIds /\ stream.is_live
                   /\ stream.video_id # last'.response ->
                   stream'.is_live /\ stream'.video_id = last'.response /\ last'.changed]_vars

\* the second detection in a row of the same video
C25_Witness ==
    /\ last.op = "autostream" /\ last.response = "V" /\ ~last.changed
    /\ stream.is_live /\ stream.video_id = "V"
    /\ nops = 2

\* C26 as stated: a detect result with changed = false never starts or stops the
\* listener, a changed = true transition to live leaves the listener started, and a
\* changed = true transition to not live leaves it stopped.
C26_ChangedIsTheTrigger ==
    [][last'.op = "autostream" =>
          /\ ~last'.changed => stream'.yapi = stream.yapi
          /\ last'.changed /\ last'.is_live /\ last'.found => stream'.yapi
          /\ last'.changed /\ ~last'.is_live => ~stream'.yapi]_vars

\* C26: the loop compares the detected is_live with the listener, whatever changed is:
\* after a detection that reports not live the listener is stopped; after one that
\* reports live a listener that was running still runs and one that was not has been
\* started if the live chat was found; so a changed = true transition to not live stops
\* the listener and a changed = true transition to live starts it.
C26_ListenerFollowsIsLive ==
    [][last'.op = "autostream" =>
          /\ ~last'.is_live => ~stream'.yapi
          /\ last'.is_live /\ stream.yapi => stream'.yapi
          /\ last'.is_live /\ ~stream.yapi => stream'.yapi = last'.found
          /\ last'.changed /\ ~last'.is_live => ~stream'.yapi]_vars

\* after a restart on a persisted live state the detection reports changed = false and
\* the listener has been started
C26_Witness ==
    /\ last.op = "autostream" /\ ~last.changed /\ last.is_live /\ last.found
    /\ stream.yapi /\ nops = 2

-----------------------------------------------------------------------------
(* The console and its workers *)

\* console commands of one session
MaxCommands == 2

Actions == {"on", "off", "toggle", "status"} \cup AutorunActions

SupRes(op, kind, r) == [op |-> op, kind |-> kind, ok |-> r.ok, msg |-> r.msg]

\* app.main, steps 4 to 7: start_if_autorun of web, websocket, discord and backup,
\* then the console starts
Boot(exits) ==
    /\ sup.phase = "boot"
    /\ sup' = [phase |-> "console",
               w |-> [k \in Workers |-> start_if_autorun(k, sup.w[k], exits[k]).h]]
    /\ last' = [op |-> "boot",
                res |-> [k \in Workers |->
                            SupRes("boot", k, start_if_autorun(k, sup.w[k], exits[k]))]]
    /\ UNCHANGED <<db, clock, inflight, nops, bvars, mirror, stream, nvars>>

\* _run_console_loop: one command of a worker is read and executed
CommandOutcome(kind, r, action) ==
    /\ sup' = [sup EXCEPT !.w[kind] = r.h]
    /\ last' = SupRes(action, kind, r)

Command(kind, action, exit) ==
    /\ sup.phase = "console"
    /\ nops < MaxCommands /\ nops' = nops + 1
    /\ CommandOutcome(kind, cmd_worker(kind, sup.w[kind], action, exit), action)
    /\ UNCHANGED <<db, clock, inflight, bvars, mirror, stream, nvars>>

\* a worker process ends on its own; the console holds the handle of an ended process
Crash(kind) ==
    /\ sup.phase = "console"
    /\ sup.w[kind].proc = "alive"
    /\ sup' = [sup EXCEPT !.w[kind].proc = "exited"]
    /\ last' = [op |-> "crash", kind |-> kind]
    /\ UNCHANGED <<db, clock, inflight, nops, bvars, mirror, stream, nvars>>

\* the program starts with the toggles and autorun flags an earlier session left
InitSup ==
    /\ db = EmptyDb /\ clock = 0 /\ inflight = <<>> /\ nops = 0
    /\ last = [op |-> "init"]
    /\ disk = EmptyDisk /\ wall = 0 /\ taken = <<>>
    /\ mirror = IdleMirror /\ stream = IdleStream /\ IdleServices
    /\ \E e \in [Workers -> BOOLEAN], a \in [Workers -> BOOLEAN] :
          sup = [phase |-> "boot", w |-> [k \in Workers |-> Worker("none", e[k], a[k])]]

NextSup ==
    \/ \E exits \in [Workers -> Exits] : Boot(exits)
    \/ \E k \in Workers, a \in Actions, exit \in Exits : Command(k, a, exit)
    \/ \E k \in Workers : Crash(k)

SpecSup == InitSup /\ [][NextSup]_vars

\* the console with no operator at it: the workers run and may end
NextUnattended ==
    \/ \E exits \in [Workers -> Exits] : Boot(exits)
    \/ \E k \in Workers : Crash(k)

SpecUnattended == InitSup /\ [][NextUnattended]_vars /\ WF_vars(NextUnattended)

-----------------------------------------------------------------------------
(* Properties of the console and its workers *)

\* C27: if a worker whose persisted enabled flag is true exits unexpectedly, the
\* supervisor re-executes it: the worker is eventually running again without any
\* operator command.
C27_CrashedWorkerRunsAgain ==
    \A k \in Workers :
        (sup.phase = "console" /\ sup.w[k].enabled /\ sup.w[k].proc = "exited")
            ~> (sup.w[k].proc = "alive")

\* C28: after supervisor startup, for every worker: a worker with autorun = true has
\* been started, and the persisted enabled flag equals the real outcome, true if and
\* only if the worker process is running, and false when the start failed.
C28_StartupFlagsMatchOutcome ==
    last.op = "boot" =>
        \A k \in Workers :
            /\ sup.w[k].enabled <=> sup.w[k].proc = "alive"
            /\ sup.w[k].autorun /\ last.res[k].ok => sup.w[k].proc = "alive"
            /\ ~last.res[k].ok => ~sup.w[k].enabled

\* a start that found the process dead after the grace delay: the result is a failure
\* whose message is the exit code with the last line of stderr
DiedInGrace(res) == ~res.ok /\ Len(res.msg) = 2

\* the last step spawned worker k and the process did not outlive the grace delay
SpawnFailed(k) ==
    IF last.op = "boot" THEN DiedInGrace(last.res[k])
    ELSE last.op \in {"on", "toggle"} /\ last.kind = k /\ DiedInGrace(last)

\* C29: if a worker process is no longer alive after the grace delay that follows its
\* spawn, the start returns failure carrying the exit code and the last stderr line,
\* the worker record has no process handle, and the persisted enabled flag is false.
C29_FailedStartLeavesWorkerDown ==
    \A k \in Workers :
        SpawnFailed(k) => sup.w[k].proc = "none" /\ ~sup.w[k].enabled

Commanded(k, actions) ==
    /\ sup.phase = "console" /\ nops' = nops + 1
    /\ last'.op \in actions /\ last'.kind = k

\* C31 as stated: a toggle of a worker whose persisted enabled flag is false starts
\* the worker and sets the flag to true; a toggle of a worker whose flag is true stops
\* the worker and sets the flag to false, whatever the state of the process
C31_ToggleFlipsEnabled ==
    [][ \A k \in Workers :
            Commanded(k, {"toggle"}) =>
                IF sup.w[k].enabled
                THEN ~sup'.w[k].enabled /\ sup'.w[k].proc = "none"
                ELSE sup'.w[k].enabled /\ sup'.w[k].proc = "alive" ]_vars

\* C31 amended: a toggle of a worker whose flag is true stops the worker and sets the
\* flag to false, whatever the state of the process; a toggle of a worker whose flag
\* is false attempts a start and sets the flag to the outcome: true with a live
\* process, or false with no handle when the process died in the grace delay
C31_ToggleFollowsEnabledAndOutcome ==
    [][ \A k \in Workers :
            Commanded(k, {"toggle"}) =>
                IF sup.w[k].enabled
                THEN ~sup'.w[k].enabled /\ sup'.w[k].proc = "none"
                ELSE /\ last'.ok \/ DiedInGrace(last')
                     /\ last'.ok => sup'.w[k].enabled /\ sup'.w[k].proc = "alive"
                     /\ ~last'.ok => ~sup'.w[k].enabled /\ sup'.w[k].proc = "none" ]_vars

\* a toggle tried to start a worker whose process died in the grace delay: no handle
\* is kept and the flag is false
C31_Witness ==
    /\ last.op = "toggle" /\ DiedInGrace(last)
    /\ ~sup.w[last.kind].enabled /\ sup.w[last.kind].proc = "none"

\* C32: for every worker `autorun` alone inverts the persisted autorun flag, and
\* `autorun true` and `autorun false` set it to the given value whatever it was;
\* neither touches the process or the enabled flag
C32_AutorunTogglesOrSets ==
    [][ \A k \in Workers :
            Commanded(k, AutorunActions) =>
                /\ sup'.w[k].autorun =
                       (CASE last'.op = "autorun" -> ~sup.w[k].autorun
                          [] last'.op = "autorun true" -> TRUE
                          [] last'.op = "autorun false" -> FALSE)
                /\ sup'.w[k].enabled = sup.w[k].enabled
                /\ sup'.w[k].proc = sup.w[k].proc ]_vars

-----------------------------------------------------------------------------
(* Balances and identities over every interleaving *)

\* C37: no PlatformWallet balance and no total Wallet balance is negative, after any
\* sequence and any interleaving of awards, deltas, transfers, gamble payouts, merges
\* and splits.
C37_NoNegativeBalance ==
    /\ \A k \in DOMAIN db.pw : db.pw[k] >= 0
    /\ \A u \in DOMAIN db.wallets : db.wallets[u] >= 0

\* u is the inactive side of an active user_id_links row
InactiveSide(d, u) == u \in DOMAIN d.links /\ d.links[u].active

\* C38: every non-zero PlatformWallet balance belongs to an active identity: no identity
\* that is the inactive side of an active IdLinkMap row holds funds, and no merge has
\* such an identity as its destination.
C38_FundsBelongToActiveIdentity ==
    /\ \A u \in UserIds, p \in SUPPORTED_PLATFORMS : InactiveSide(db, u) => Bal(db, u, p) = 0
    /\ (last.op \in {"consume", "force_link"} /\ last.ok /\ last.a # last.b)
           => ~InactiveSide(db, last.a)

-----------------------------------------------------------------------------
(* The broadcast hub: peers join, send frames and leave while broadcasts run *)

\* connections accepted and frames received in one run
MaxJoins == 3
MaxFrames == 2

HubRes(op, p, frame, id) == [op |-> op, peer |-> p, frame |-> frame, id |-> id]

\* _ws_handler, lines 58-59: the connection is accepted, joins the set and is greeted
Connect(p) ==
    /\ hub.handler[p] = "off" /\ p \notin hub.conns
    /\ hub.joins < MaxJoins
    /\ hub' = send_text([Fresh(hub, p) EXCEPT !.conns = @ \cup {p}, !.sock[p] = "open",
                                               !.handler[p] = "recv", !.inbox[p] = <<>>,
                                               !.joins = @ + 1],
                        p, Item("connected", <<>>, 0))
    /\ last' = HubRes("connect", p, <<>>, 0)
    /\ UNCHANGED <<db, clock, inflight, nops, bvars, mirror, sup, stream, pq, chan>>

\* the peer's end of the connection goes away
ClientClose(p) ==
    /\ hub.sock[p] = "open"
    /\ hub' = Left([hub EXCEPT !.sock[p] = "closed"], {p})
    /\ last' = HubRes("close", p, <<>>, 0)
    /\ UNCHANGED <<db, clock, inflight, nops, bvars, mirror, sup, stream, pq, chan>>

\* _ws_handler, lines 68-70: receive_text raises WebSocketDisconnect
HandlerDisconnect(p) ==
    /\ hub.handler[p] = "recv" /\ hub.sock[p] = "closed"
    /\ hub' = disconnect([hub EXCEPT !.handler[p] = "off"], {p})
    /\ last' = HubRes("disconnect", p, <<>>, 0)
    /\ UNCHANGED <<db, clock, inflight, nops, bvars, mirror, sup, stream, pq, chan>>

\* _ws_handler, lines 63-66: a frame that is a ping is answered to its sender
ReceivePing(p, message) ==
    /\ hub.handler[p] = "recv" /\ hub.sock[p] = "open"
    /\ hub.frames < MaxFrames
    /\ is_ping(message)
    /\ hub' = send_text([hub EXCEPT !.frames = @ + 1], p, Item("pong", <<>>, hub.frames + 1))
    /\ last' = HubRes("receive", p, message, hub.frames + 1)
    /\ UNCHANGED <<db, clock, inflight, nops, bvars, mirror, sup, stream, pq, chan>>

\* _ws_handler, line 67, and broadcast, lines 30-33: any other frame starts a
\* broadcast, which takes the first peer q of the set and awaits the send to it
ReceiveFrame(p, message, q) ==
    /\ hub.handler[p] = "recv" /\ hub.sock[p] = "open"
    /\ hub.frames < MaxFrames
    /\ ~is_ping(message)
    /\ q \in hub.conns
    /\ hub' = [hub EXCEPT !.frames = @ + 1, !.handler[p] = "bcast",
                          !.bc[p] = [payload |-> message, id |-> hub.frames + 1,
                                     size |-> Cardinality(hub.conns),
                                     start |-> hub.conns, visited |-> {q}, cur |-> q,
                                     dead |-> {},
                                     stayed |-> {r \in hub.conns : hub.sock[r] = "open"}]]
    /\ last' = HubRes("receive", p, message, hub.frames + 1)
    /\ UNCHANGED <<db, clock, inflight, nops, bvars, mirror, sup, stream, pq, chan>>

\* broadcast, lines 32-35: the awaited send to the current peer returns or raises
Sent(h, p) ==
    LET b == h.bc[p]
        h1 == send_text(h, b.cur, Item("frame", b.payload, b.id))
    IN  IF h.sock[b.cur] = "open" THEN h1
        ELSE [h EXCEPT !.bc[p].dead = @ \cup {b.cur}]

\* broadcast, line 31: the loop takes the next peer q of the set
BroadcastNext(p, q) ==
    /\ hub.handler[p] = "bcast"
    /\ ~SetChangedSize(hub, hub.bc[p])
    /\ q \in MustVisit(hub, hub.bc[p]) \cup MayVisit(hub, hub.bc[p])
    /\ hub' = [Sent(hub, p) EXCEPT !.bc[p].visited = @ \cup {q}, !.bc[p].cur = q]
    /\ last' = HubRes("send", p, hub.bc[p].payload, hub.bc[p].id)
    /\ UNCHANGED <<db, clock, inflight, nops, bvars, mirror, sup, stream, pq, chan>>

\* broadcast, lines 31 and 37-38: the loop is over, the dead peers leave the set and
\* the handler waits for the next frame
BroadcastEnd(p) ==
    /\ hub.handler[p] = "bcast"
    /\ ~SetChangedSize(hub, hub.bc[p])
    /\ MustVisit(hub, hub.bc[p]) = {}
    /\ LET h == Sent(hub, p)
       IN  hub' = [disconnect(h, h.bc[p].dead) EXCEPT !.handler[p] = "recv",
                                                      !.bc[p] = NoBroadcast]
    /\ last' = HubRes("broadcast", p, hub.bc[p].payload, hub.bc[p].id)
    /\ UNCHANGED <<db, clock, inflight, nops, bvars, mirror, sup, stream, pq, chan>>

\* broadcast, line 31, and _ws_handler, lines 71-73: the set has another size than
\* when the loop began, the iterator raises RuntimeError, nothing in broadcast catches
\* it, the handler removes its own peer and returns, which closes the connection
BroadcastAbort(p) ==
    /\ hub.handler[p] = "bcast"
    /\ SetChangedSize(hub, hub.bc[p])
    /\ hub' = [disconnect(Sent(hub, p), {p}) EXCEPT !.handler[p] = "off",
                                                    !.sock[p] = "closed",
                                                    !.bc[p] = NoBroadcast]
    /\ last' = HubRes("abort", p, hub.bc[p].payload, hub.bc[p].id)
    /\ UNCHANGED <<db, clock, inflight, nops, bvars, mirror, sup, stream, pq, chan>>

InitHub ==
    /\ db = EmptyDb /\ clock = 0 /\ inflight = <<>> /\ nops = 0
    /\ last = HubRes("init", "a", <<>>, 0)
    /\ disk = EmptyDisk /\ wall = 0 /\ taken = <<>>
    /\ mirror = IdleMirror /\ sup = IdleSup /\ stream = IdleStream
    /\ IdleServices

NextHub ==
    \/ \E p \in Peers : Connect(p)
    \/ \E p \in Peers : ClientClose(p)
    \/ \E p \in Peers : HandlerDisconnect(p)
    \/ \E p \in Peers, m \in Frames : ReceivePing(p, m)
    \/ \E p \in Peers, m \in Frames, q \in Peers : ReceiveFrame(p, m, q)
    \/ \E p \in Peers, q \in Peers : BroadcastNext(p, q)
    \/ \E p \in Peers : BroadcastEnd(p)
    \/ \E p \in Peers : BroadcastAbort(p)

SpecHub == InitHub /\ [][NextHub]_vars

-----------------------------------------------------------------------------
(* Properties of the broadcast hub *)

\* the frames that read `ping` once the blanks around them are stripped and their
\* capitals lowered
PingFrames == {f \in Frames : str_lower(str_strip(f)) = PingText}

\* the step is the handler of p receiving a frame
Received(p) == hub'.frames = hub.frames + 1 /\ last'.peer = p

\* the frame went unchanged into a broadcast over the peers connected at that moment
BroadcastBegun(p) ==
    /\ hub'.handler[p] = "bcast"
    /\ hub'.bc[p].payload = last'.frame /\ hub'.bc[p].start = hub.conns
    /\ \A q \in Peers : hub'.inbox[q] = hub.inbox[q]

\* the frame was answered with a pong to p and reached nobody else
PongToSenderOnly(p) ==
    /\ hub'.inbox[p] = Append(hub.inbox[p], Item("pong", <<>>, last'.id))
    /\ \A q \in Peers \ {p} : hub'.inbox[q] = hub.inbox[q]
    /\ hub'.handler[p] = "recv" /\ hub'.bc = hub.bc

\* the step ends a broadcast of p that ran through the whole set: every peer that
\* was connected all the while holds the frame, and the peers whose send failed
\* have left the set
BroadcastDelivered(p) ==
    (hub.handler[p] = "bcast" /\ last'.op = "broadcast" /\ last'.peer = p)
        => /\ \A q \in hub.bc[p].stayed : Got(hub', q, last'.id)
           /\ \A q \in hub.bc[p].visited : Got(hub', q, last'.id) \/ q \notin hub'.conns

C39_BroadcastSurvivesJoinsAndLeaves ==
    [][ \A p \in Peers :
            (hub.handler[p] = "bcast" /\ hub'.handler[p] # "bcast")
                => /\ \A q \in hub.bc[p].stayed : Got(hub', q, hub.bc[p].id)
                   /\ hub.sock[p] = "open" => p \in hub'.conns ]_vars

-----------------------------------------------------------------------------
(* The progress-event queue: producers in other processes append while the *)
(* Discord bot pops                                                         *)

\* events enqueued and pops made in one run
MaxEvents == 3
MaxPops == 2

QueueRes(op, events, before) == [op |-> op, events |-> events, before |-> before]

\* _enqueue_progress_event, lines 46-54: the producer reads the queue file
EnqueueLoad(P) ==
    /\ pq.prod[P].pc = "idle"
    /\ pq.made < MaxEvents
    /\ pq' = [pq EXCEPT !.made = @ + 1,
                        !.prod[P] = [pc |-> "loaded", queue |-> pq.file, event |-> pq.made + 1]]
    /\ last' = QueueRes("enqueue_load", <<pq.made + 1>>, pq.file)
    /\ UNCHANGED <<db, clock, inflight, nops, bvars, mirror, sup, stream, hub, chan>>

\* _enqueue_progress_event, lines 56-58: the producer writes the list it loaded, with
\* its event at the end
EnqueueWrite(P) ==
    /\ pq.prod[P].pc = "loaded"
    /\ pq' = [pq EXCEPT !.file = enqueue_append(pq.prod[P].queue, pq.prod[P].event),
                        !.prod[P] = [pc |-> "idle", queue |-> <<>>, event |-> 0]]
    /\ last' = QueueRes("enqueue", <<pq.prod[P].event>>, pq.file)
    /\ UNCHANGED <<db, clock, inflight, nops, bvars, mirror, sup, stream, hub, chan>>

\* pop_external_platform_progress_events, lines 132-139: no file or an empty list
PopNothing ==
    /\ pq.cons.pc = "idle" /\ pq.pops < MaxPops
    /\ pq.file = <<>>
    /\ pq' = [pq EXCEPT !.pops = @ + 1]
    /\ last' = QueueRes("pop", <<>>, pq.file)
    /\ UNCHANGED <<db, clock, inflight, nops, bvars, mirror, sup, stream, hub, chan>>

\* pop_external_platform_progress_events, lines 136-137: the consumer reads the file
PopLoad(max_items) ==
    /\ pq.cons.pc = "idle" /\ pq.pops < MaxPops
    /\ pq.file # <<>>
    /\ pq' = [pq EXCEPT !.pops = @ + 1,
                        !.cons = [pc |-> "loaded", loaded |-> pq.file, max_items |-> max_items]]
    /\ last' = QueueRes("pop_load", <<>>, pq.file)
    /\ UNCHANGED <<db, clock, inflight, nops, bvars, mirror, sup, stream, hub, chan>>

\* pop_external_platform_progress_events, lines 141-154: the consumer writes what
\* remains of the list it loaded, or removes the file, and returns the head
PopWrite ==
    /\ pq.cons.pc = "loaded"
    /\ LET r == pop_split(pq.cons.loaded, pq.cons.max_items)
       IN  /\ pq' = [pq EXCEPT !.file = r.remaining,
                               !.returned = @ \o r.events,
                               !.cons = [pc |-> "idle", loaded |-> <<>>, max_items |-> 0]]
           /\ last' = QueueRes("pop", r.events, pq.file)
    /\ UNCHANGED <<db, clock, inflight, nops, bvars, mirror, sup, stream, hub, chan>>

InitQueue ==
    /\ db = EmptyDb /\ clock = 0 /\ inflight = <<>> /\ nops = 0
    /\ last = QueueRes("init", <<>>, <<>>)
    /\ disk = EmptyDisk /\ wall = 0 /\ taken = <<>>
    /\ mirror = IdleMirror /\ sup = IdleSup /\ stream = IdleStream
    /\ IdleServices

NextQueue ==
    \/ \E P \in Producers : EnqueueLoad(P)
    \/ \E P \in Producers : EnqueueWrite(P)
    \/ PopNothing
    \/ \E n \in PopSizes : PopLoad(n)
    \/ PopWrite

SpecQueue == InitQueue /\ [][NextQueue]_vars

\* the events of a list
Events(q) == {q[i] : i \in 1..Len(q)}

\* C34: a pop is a critical section with respect to the producers: it returns the
\* first up-to-N events of the file in enqueue order and leaves exactly the others
\* in the file, no event that is in the file when the pop writes is dropped, and no
\* event is returned by two pops.
C34_PopIsCriticalSection ==
    [][ (pq.cons.pc = "loaded" /\ last'.op = "pop")
            => /\ last'.events = Take(pq.file, pq.cons.max_items)
               /\ pq'.file = Drop(pq.file, pq.cons.max_items)
               /\ Events(pq.file) \subseteq Events(last'.events) \cup Events(pq'.file)
               /\ Cardinality(Events(pq'.returned)) = Len(pq'.returned) ]_vars

-----------------------------------------------------------------------------
(* The economy channel: balance updates of the members of a guild and the *)
(* notifications they start, which overlap at every send                   *)

\* balance updates in one run and notifications between their load and their save
MaxUpdates == 4
MaxTasks == 2

ChanRes(op, t, level, ok, saved) ==
    [op |-> op, user |-> t.user, prev |-> t.prev, new |-> t.new, phase |-> t.phase,
     seen |-> t.state[t.user], level |-> level, ok |-> ok, saved |-> saved]

\* a caller of notify_economy_progress_if_needed (on_message, the voice earning loop,
\* the external events loop): the balance of the member went from what it was to new,
\* and the notification runs to its first await
BalanceUpdate(user, new) ==
    /\ chan.updates < MaxUpdates
    /\ new # chan.bal[user]
    /\ LET t == begin_notification(chan.file, user, chan.bal[user], new)
       IN  /\ t.phase # "none" => Len(chan.tasks) < MaxTasks
           /\ chan' = [chan EXCEPT !.updates = @ + 1, !.bal[user] = new,
                                   !.tasks = IF t.phase = "none" THEN @ ELSE Append(@, t)]
           /\ last' = ChanRes("update", t, 0, TRUE, FALSE)
    /\ UNCHANGED <<db, clock, inflight, nops, bvars, mirror, sup, stream, hub, pq>>

\* lines 225-231 and 242-244: the awaited send of a milestone returns; the level joins
\* already_notified, and after the last one the state is saved
MilestoneSent(i) ==
    /\ i \in 1..Len(chan.tasks) /\ chan.tasks[i].phase = "levels"
    /\ LET t == chan.tasks[i]
           level == Head(t.pending)
           already == t.already_notified \cup {level}
           more == Tail(t.pending) # <<>>
       IN  /\ chan' = [chan EXCEPT
                         !.announced[t.user][level] = Min(@ + 1, 2),
                         !.tasks = IF more
                                   THEN [@ EXCEPT ![i].pending = Tail(t.pending),
                                                  ![i].already_notified = already]
                                   ELSE RemoveAt(@, i),
                         !.file = IF more THEN @ ELSE _save_state(t.state, t.user, already)]
           /\ last' = ChanRes("milestone", t, level, TRUE, ~more)
    /\ UNCHANGED <<db, clock, inflight, nops, bvars, mirror, sup, stream, hub, pq>>

\* lines 233-240: the awaited send of the bankruptcy notice returns; the milestones of
\* the member are emptied and the state is saved
BankruptcySent(i) ==
    /\ i \in 1..Len(chan.tasks) /\ chan.tasks[i].phase = "bankrupt"
    /\ LET t == chan.tasks[i]
       IN  /\ chan' = [chan EXCEPT
                         !.announced[t.user] = [level \in Levels |-> 0],
                         !.tasks = RemoveAt(@, i),
                         !.file = _save_state(t.state, t.user, {})]
           /\ last' = ChanRes("bankruptcy", t, 0, TRUE, TRUE)
    /\ UNCHANGED <<db, clock, inflight, nops, bvars, mirror, sup, stream, hub, pq>>

\* lines 245-246: channel.send raises; the exception ends the notification before any
\* save
SendFailed(i) ==
    /\ i \in 1..Len(chan.tasks)
    /\ chan' = [chan EXCEPT !.tasks = RemoveAt(@, i)]
    /\ last' = ChanRes("failed", chan.tasks[i], 0, FALSE, FALSE)
    /\ UNCHANGED <<db, clock, inflight, nops, bvars, mirror, sup, stream, hub, pq>>

InitChannel ==
    /\ db = EmptyDb /\ clock = 0 /\ inflight = <<>> /\ nops = 0
    /\ last = ChanRes("init", begin_notification(NoMilestones, "discord:1", 0, 0), 0, TRUE, FALSE)
    /\ disk = EmptyDisk /\ wall = 0 /\ taken = <<>>
    /\ mirror = IdleMirror /\ sup = IdleSup /\ stream = IdleStream
    /\ IdleServices

NextChannel ==
    \/ \E u \in Members, new \in Balances : BalanceUpdate(u, new)
    \/ \E i \in 1..MaxTasks : MilestoneSent(i)
    \/ \E i \in 1..MaxTasks : BankruptcySent(i)
    \/ \E i \in 1..MaxTasks : SendFailed(i)

SpecChannel == InitChannel /\ [][NextChannel]_vars

-----------------------------------------------------------------------------
(* Properties of the economy channel *)

\* C35: for each member of a guild a milestone level is announced once: over any
\* sequence of balance updates, one with a send that fails part-way included, no
\* level is announced a second time unless a bankruptcy notice to the member came
\* in between.
C35_MilestoneAnnouncedOnce ==
    \A u \in Members, level \in Levels : chan.announced[u][level] <= 1

\* the step is a balance update
Updated == chan'.updates = chan.updates + 1

\* the step ends a notification
Ended == Len(chan'.tasks) < Len(chan.tasks)

C40_OverlapKeepsMilestones ==
    [][ (Ended /\ last'.saved) =>
            /\ \A v \in Members \ {last'.user} : chan'.file[v] = chan.file[v]
            /\ last'.op = "milestone" =>
                   chan.file[last'.user] \subseteq chan'.file[last'.user] ]_vars

====
